---- MODULE Spec2Model ----
(***************************************************************************)
(* Finance-Analytics: the rule-based transaction classifier                *)
(* (code/utils.py apply_label_rules, code/label_app.py add_rule_to_json,   *)
(* code/label_transactions.py) and the monthly aggregation of the          *)
(* dashboard (code/fin_dashboard.py update_dashboard).                     *)
(*                                                                         *)
(* Text is a sequence of one-character strings, money is an integer number *)
(* of cents, a calendar date is <<year, month, day>>.                      *)
(***************************************************************************)
EXTENDS Integers, Sequences, FiniteSets, TLC

VARIABLES rules, db, op, store, report, ledger, sav, jobs, pass, daily

vars == <<rules, db, op, store, report, ledger, sav, jobs, pass, daily>>

\* the null of a text column: a sequence no text is equal to
NULL == <<"NULL">>

(***************************************************************************)
(* Bounds of the model.                                                    *)
(***************************************************************************)
MaxRules == 2
MaxTx == 2
MaxStore == 4

(***************************************************************************)
(* Text helpers: str.lower, str.strip, substring containment.              *)
(***************************************************************************)
UpperToLower ==
  [c \in {"A","B","C","D","E","F","G","H","I","J","K","L","M","N","O","P",
          "Q","R","S","T","U","V","W","X","Y","Z"} |->
     CASE c = "A" -> "a" [] c = "B" -> "b" [] c = "C" -> "c" [] c = "D" -> "d"
       [] c = "E" -> "e" [] c = "F" -> "f" [] c = "G" -> "g" [] c = "H" -> "h"
       [] c = "I" -> "i" [] c = "J" -> "j" [] c = "K" -> "k" [] c = "L" -> "l"
       [] c = "M" -> "m" [] c = "N" -> "n" [] c = "O" -> "o" [] c = "P" -> "p"
       [] c = "Q" -> "q" [] c = "R" -> "r" [] c = "S" -> "s" [] c = "T" -> "t"
       [] c = "U" -> "u" [] c = "V" -> "v" [] c = "W" -> "w" [] c = "X" -> "x"
       [] c = "Y" -> "y" [] c = "Z" -> "z"]

LowerChar(c) == IF c \in DOMAIN UpperToLower THEN UpperToLower[c] ELSE c

lower(s) == [i \in 1..Len(s) |-> LowerChar(s[i])]

IsSpace(c) == c = " "

RECURSIVE lstrip(_)
lstrip(s) == IF s # <<>> /\ IsSpace(Head(s)) THEN lstrip(Tail(s)) ELSE s

RECURSIVE rstrip(_)
rstrip(s) ==
  IF s # <<>> /\ IsSpace(s[Len(s)]) THEN rstrip(SubSeq(s, 1, Len(s) - 1)) ELSE s

strip(s) == rstrip(lstrip(s))

\* the text p occurs in s at offset i (0-based)
OccursAt(s, p, i) == i + Len(p) <= Len(s) /\ SubSeq(s, i + 1, i + Len(p)) = p

\* polars str.contains(pattern, literal=True)
contains_literal(s, p) == \E i \in 0..Len(s) : OccursAt(s, p, i)

(***************************************************************************)
(* Regex containment, polars str.contains(pattern, literal=False), for the *)
(* patterns the rule file holds: alternatives separated by "|", each a run *)
(* of literal characters and "." wildcards, optionally anchored by a       *)
(* leading "^" and a trailing "$".  Any other metacharacter makes the      *)
(* pattern one the model does not compile (RegexCompiles is FALSE).        *)
(***************************************************************************)
RegexMeta == {"*", "+", "?", "[", "]", "(", ")", "^", "$", "|"}

RECURSIVE SplitAlt(_, _)
SplitAlt(p, acc) ==
  IF p = <<>> THEN <<acc>>
  ELSE IF Head(p) = "|" THEN <<acc>> \o SplitAlt(Tail(p), <<>>)
  ELSE SplitAlt(Tail(p), Append(acc, Head(p)))

BranchAnchoredStart(b) == b # <<>> /\ Head(b) = "^"
BranchBody0(b) == IF BranchAnchoredStart(b) THEN Tail(b) ELSE b
BranchAnchoredEnd(b) == BranchBody0(b) # <<>> /\ BranchBody0(b)[Len(BranchBody0(b))] = "$"
BranchBody(b) ==
  IF BranchAnchoredEnd(b) THEN SubSeq(BranchBody0(b), 1, Len(BranchBody0(b)) - 1)
  ELSE BranchBody0(b)

BranchCompiles(b) == \A k \in 1..Len(BranchBody(b)) : BranchBody(b)[k] \notin RegexMeta

RegexCompiles(p) ==
  \A j \in 1..Len(SplitAlt(p, <<>>)) : BranchCompiles(SplitAlt(p, <<>>)[j])

BranchMatchesAt(s, b, i) ==
  LET body == BranchBody(b) IN
    /\ i + Len(body) <= Len(s)
    /\ \A k \in 1..Len(body) : body[k] = "." \/ body[k] = s[i + k]
    /\ BranchAnchoredStart(b) => i = 0
    /\ BranchAnchoredEnd(b) => i + Len(body) = Len(s)

contains_regex(s, p) ==
  \E j \in 1..Len(SplitAlt(p, <<>>)) :
    \E i \in 0..Len(s) : BranchMatchesAt(s, SplitAlt(p, <<>>)[j], i)

(***************************************************************************)
(* Numbers in text: the numeric rule pattern and the Utf8 cast of amount.  *)
(***************************************************************************)
Digits == {"0","1","2","3","4","5","6","7","8","9"}

DigitVal(c) ==
  CASE c = "0" -> 0 [] c = "1" -> 1 [] c = "2" -> 2 [] c = "3" -> 3
    [] c = "4" -> 4 [] c = "5" -> 5 [] c = "6" -> 6 [] c = "7" -> 7
    [] c = "8" -> 8 [] c = "9" -> 9

DigitChar(n) ==
  CASE n = 0 -> "0" [] n = 1 -> "1" [] n = 2 -> "2" [] n = 3 -> "3"
    [] n = 4 -> "4" [] n = 5 -> "5" [] n = 6 -> "6" [] n = 7 -> "7"
    [] n = 8 -> "8" [] n = 9 -> "9"

RECURSIVE Pow10(_)
Pow10(n) == IF n = 0 THEN 1 ELSE 10 * Pow10(n - 1)

RECURSIVE DigitsToNat(_)
DigitsToNat(s) ==
  IF s = <<>> THEN 0
  ELSE 10 * DigitsToNat(SubSeq(s, 1, Len(s) - 1)) + DigitVal(s[Len(s)])

RECURSIVE NatToDigits(_)
NatToDigits(n) ==
  IF n < 10 THEN <<DigitChar(n)>>
  ELSE Append(NatToDigits(n \div 10), DigitChar(n % 10))

AllDigits(s) == s # <<>> /\ \A i \in 1..Len(s) : s[i] \in Digits

\* a variant that tries the one-character operators first, so that ">=" and
\* "<=" are never recognized
ComparisonOp_short_first(p) ==
  IF Len(p) >= 1 /\ p[1] \in {">", "<"} THEN <<p[1]>>
  ELSE IF Len(p) >= 2 /\ SubSeq(p, 1, 2) \in {<<"=","=">>, <<"!","=">>} THEN SubSeq(p, 1, 2)
  ELSE <<>>

\* the comparison operator a pattern starts with: (>=|<=|==|!=|>|<), or <<>>
ComparisonOp(p) ==
  IF Len(p) >= 2 /\ SubSeq(p, 1, 2) \in {<<">","=">>, <<"<","=">>, <<"=","=">>, <<"!","=">>}
    THEN SubSeq(p, 1, 2)
  ELSE IF Len(p) >= 1 /\ p[1] \in {">", "<"} THEN <<p[1]>>
  ELSE <<>>

\* what follows the operator, after \s*
NumberText(p) == lstrip(SubSeq(p, Len(ComparisonOp(p)) + 1, Len(p)))

DotPos(s) == IF \E i \in 1..Len(s) : s[i] = "."
             THEN CHOOSE i \in 1..Len(s) : s[i] = "." /\ \A j \in 1..(i - 1) : s[j] # "."
             ELSE 0

\* \d+(\.\d+)?
IsDecimalText(s) ==
  IF DotPos(s) = 0 THEN AllDigits(s)
  ELSE AllDigits(SubSeq(s, 1, DotPos(s) - 1)) /\ AllDigits(SubSeq(s, DotPos(s) + 1, Len(s)))

\* re.match(r"^(>=|<=|==|!=|>|<)\s*\d+(\.\d+)?$", pattern.strip())
is_numeric_pattern(pattern) ==
  ComparisonOp(strip(pattern)) # <<>> /\ IsDecimalText(NumberText(strip(pattern)))

\* float(...) of a decimal text, as the exact fraction num / den
DecimalValue(s) ==
  IF DotPos(s) = 0 THEN [num |-> DigitsToNat(s), den |-> 1]
  ELSE [num |-> DigitsToNat(SubSeq(s, 1, DotPos(s) - 1) \o SubSeq(s, DotPos(s) + 1, Len(s))),
        den |-> Pow10(Len(s) - DotPos(s))]

\* col <op> value for an amount of `cents` cents
numeric_condition(cents, pattern) ==
  LET p == strip(pattern)
      o == ComparisonOp(p)
      v == DecimalValue(NumberText(p))
      l == cents * v.den
      r == v.num * 100
  IN CASE o = <<">">> -> l > r
       [] o = <<"<">> -> l < r
       [] o = <<">","=">> -> l >= r
       [] o = <<"<","=">> -> l <= r
       [] o = <<"=","=">> -> l = r
       [] o = <<"!","=">> -> l # r

\* pl.col("amount").cast(pl.Utf8): "150.0", "-20.0", "100.5", "0.25"
AmountText(cents) ==
  LET a == IF cents < 0 THEN -cents ELSE cents
      frac == a % 100
      fracText == IF frac % 10 = 0 THEN <<DigitChar(frac \div 10)>>
                  ELSE <<DigitChar(frac \div 10), DigitChar(frac % 10)>>
  IN (IF cents < 0 THEN <<"-">> ELSE <<>>) \o NatToDigits(a \div 100) \o <<".">> \o fracText

(***************************************************************************)
(* Rule engine.  A rule is [match, field, category, regex]; a row of the   *)
(* transactions table is [transactionId, bookingDate, amount, remittance,  *)
(* category].  rules is the file rules.json: [exists, list].               *)
(***************************************************************************)
NoFile == [exists |-> FALSE, list |-> <<>>]

RulesFile(rs) == [exists |-> TRUE, list |-> rs]

Columns == {"transactionId", "bookingDate", "amount", "remittance", "category"}

DateText(d) ==
  LET two(n) == <<DigitChar(n \div 10), DigitChar(n % 10)>>
  IN NatToDigits(d[1]) \o <<"-">> \o two(d[2]) \o <<"-">> \o two(d[3])

\* pl.col(field).cast(pl.Utf8): the text of a column value, NULL for null
FieldText(row, field) ==
  CASE field = "amount" -> AmountText(row.amount)
    [] field = "bookingDate" -> DateText(row.bookingDate)
    [] OTHER -> row[field]

\* building or evaluating the rule's expression raises
rule_raises(rule) ==
  \/ rule.field \notin Columns
  \/ /\ ~(rule.field = "amount" /\ is_numeric_pattern(rule.match))
     /\ rule.regex
     /\ ~RegexCompiles(lower(rule.match))

\* the rule's condition on one row; a null operand gives null, which
\* pl.when treats as not matching
rule_condition(rule, row) ==
  IF rule.field = "amount" /\ is_numeric_pattern(rule.match)
    THEN numeric_condition(row.amount, rule.match)
  ELSE LET text == FieldText(row, rule.field) IN
    IF text = NULL THEN FALSE
    ELSE IF rule.regex THEN contains_regex(lower(text), lower(rule.match))
    ELSE contains_literal(lower(text), lower(rule.match))

\* a first-match-wins variant: a row an earlier rule labeled is left alone
apply_rule_first_match(df, rule) ==
  [i \in 1..Len(df) |->
     IF rule_condition(rule, df[i]) /\ df[i].category = NULL
       THEN [df[i] EXCEPT !.category = rule.category]
     ELSE df[i]]

\* df.with_columns(pl.when(condition).then(category).otherwise(pl.col("category")))
apply_rule(df, rule) ==
  [i \in 1..Len(df) |->
     IF rule_condition(rule, df[i]) THEN [df[i] EXCEPT !.category = rule.category]
     ELSE df[i]]

\* a variant that initializes the working category to a placeholder text
reset_category_placeholder(df) ==
  [i \in 1..Len(df) |-> [df[i] EXCEPT !.category = <<"U","n","c","a","t","e","g","o","r","i","z","e","d">>]]

\* df.with_columns(pl.lit(None).alias("category"))
reset_category(df) == [i \in 1..Len(df) |-> [df[i] EXCEPT !.category = NULL]]

RECURSIVE apply_rules_loop(_, _, _)
apply_rules_loop(df, rs, k) ==
  IF k > Len(rs) THEN [raised |-> FALSE, df |-> df, applied |-> k - 1]
  ELSE IF rule_raises(rs[k]) THEN [raised |-> TRUE, df |-> df, applied |-> k - 1]
  ELSE apply_rules_loop(apply_rule(df, rs[k]), rs, k + 1)

\* a variant that keeps the categories the batch came with
apply_label_rules_no_reset(df, rulesFile) ==
  IF ~rulesFile.exists THEN [raised |-> TRUE, df |-> df, applied |-> 0]
  ELSE apply_rules_loop(df, rulesFile.list, 1)

\* utils.apply_label_rules(df, rules_path)
apply_label_rules(df, rulesFile) ==
  IF ~rulesFile.exists THEN [raised |-> TRUE, df |-> df, applied |-> 0]
  ELSE apply_rules_loop(reset_category(df), rulesFile.list, 1)

\* heuristic of add_rule_to_json: any(c in keyword for c in "*+?[]()^$|")
is_regex(keyword) == \E i \in 1..Len(keyword) : keyword[i] \in RegexMeta

existing_patterns(rs) == {lower(rs[i].match) : i \in 1..Len(rs)}

\* a variant whose duplicate test is case-sensitive
add_rule_to_json_case_sensitive(rulesFile, keyword, category, field) ==
  IF strip(keyword) = <<>> THEN rulesFile
  ELSE LET kw == strip(keyword)
           rs == IF rulesFile.exists THEN rulesFile.list ELSE <<>>
       IN IF kw \notin {rs[i].match : i \in 1..Len(rs)}
            THEN RulesFile(Append(rs, [match |-> kw, field |-> field,
                                       category |-> category, regex |-> is_regex(kw)]))
          ELSE rulesFile

\* label_app.add_rule_to_json(keyword, category, field): the new content of
\* rules.json
add_rule_to_json(rulesFile, keyword, category, field) ==
  IF strip(keyword) = <<>> THEN rulesFile
  ELSE LET kw == strip(keyword)
           rs == IF rulesFile.exists THEN rulesFile.list ELSE <<>>
       IN IF lower(kw) \notin existing_patterns(rs)
            THEN RulesFile(Append(rs, [match |-> kw, field |-> field,
                                       category |-> category, regex |-> is_regex(kw)]))
          ELSE rulesFile

(***************************************************************************)
(* The texts the model draws its inputs from.                              *)
(***************************************************************************)
Food == <<"F","o","o","d">>
Shopping == <<"S","h","o","p","p","i","n","g">>
Drinks == <<"D","r","i","n","k","s">>
Big == <<"B","i","g">>
Small == <<"S","m","a","l","l">>
Refund == <<"R","e","f","u","n","d">>
Housing == <<"H","o","u","s","i","n","g">>
Manual == <<"M","a","n","u","a","l">>
Unique == <<"U","n","i","q","u","e">>

TxPool ==
  << [transactionId |-> <<"t","1">>, bookingDate |-> <<2024, 1, 20>>, amount |-> 15000,
      remittance |-> <<"c","o","f","f","e","e"," ","s","h","o","p">>],
     [transactionId |-> <<"t","2">>, bookingDate |-> <<2024, 2, 1>>, amount |-> 10000,
      remittance |-> <<"R","e","n","t">>],
     [transactionId |-> <<"t","3">>, bookingDate |-> <<2024, 2, 10>>, amount |-> -2000,
      remittance |-> NULL] >>

\* the categories a stored row may carry before a relabel pass
PriorCategories == {NULL, Manual}

\* the (keyword, category, field) triples the labeling app is asked to add
RulePool ==
  { [keyword |-> <<"c","o","f","f","e","e">>, category |-> Food, field |-> "remittance"],
    [keyword |-> <<"s","h","o","p">>, category |-> Shopping, field |-> "remittance"],
    [keyword |-> <<" ","C","O","F","F","E","E">>, category |-> Drinks, field |-> "remittance"],
    [keyword |-> <<" ">>, category |-> Food, field |-> "remittance"],
    [keyword |-> <<"c",".","f","|","r","e","n","t","$">>, category |-> Housing, field |-> "remittance"],
    [keyword |-> <<"t","1">>, category |-> Unique, field |-> "transactionId"],
    [keyword |-> <<"x">>, category |-> Food, field |-> "memo"],
    [keyword |-> <<">","1","0","0">>, category |-> Big, field |-> "amount"] }

\* strictly increasing index sequences of length at most k over 1..n
IncSeqs(n, k) ==
  {q \in UNION {[1..m -> 1..n] : m \in 0..k} :
     \A i \in 1..Len(q) : \A j \in 1..Len(q) : i < j => q[i] < q[j]}

\* a stored table: rows of the pool in pool order, each with a prior category
Tables ==
  UNION { { [i \in 1..Len(q) |->
               [transactionId |-> TxPool[q[i]].transactionId,
                bookingDate |-> TxPool[q[i]].bookingDate,
                amount |-> TxPool[q[i]].amount,
                remittance |-> TxPool[q[i]].remittance,
                category |-> c[i]]] : c \in [1..Len(q) -> PriorCategories] }
          : q \in IncSeqs(Len(TxPool), MaxTx) }

NoOp == [name |-> "init", keyword |-> <<>>, category |-> <<>>, field |-> "", ok |-> TRUE,
         applied |-> 0]

NoReport == [status |-> "none"]

\* the savings ledger file is absent
NoLedger == [exists |-> FALSE, rows |-> <<>>]

\* the savings form before any click
NoSav == [status |-> "none"]

\* no append to the ledger is under way
NoJobs == <<>>

\* no relabel pass is under way
NoPass == [pc |-> "idle"]

\* run_daily has not been invoked
NoDaily == [status |-> "none"]

(***************************************************************************)
(* Labeling: the operations on rules.json and the transactions table.      *)
(***************************************************************************)
InitRules ==
  /\ rules \in {NoFile, RulesFile(<<>>)}
  /\ db \in Tables
  /\ op = NoOp
  /\ store = <<>>
  /\ report = NoReport
  /\ ledger = NoLedger
  /\ sav = NoSav
  /\ jobs = NoJobs
  /\ pass = NoPass
  /\ daily = NoDaily

\* label_app.add_rule_to_json(keyword, category, field)
AddRule(keyword, category, field) ==
  /\ Len(add_rule_to_json(rules, keyword, category, field).list) <= MaxRules
  /\ rules' = add_rule_to_json(rules, keyword, category, field)
  /\ op' = [name |-> "add_rule", keyword |-> keyword, category |-> category,
            field |-> field, ok |-> TRUE, applied |-> 0]
  /\ UNCHANGED <<db, store, report, ledger, sav, jobs, pass, daily>>

\* label_transactions.py: load the table, classify it, rewrite the table
LabelTransactions ==
  LET r == apply_label_rules(db, rules) IN
    /\ db' = IF r.raised THEN db ELSE r.df
    /\ op' = [NoOp EXCEPT !.name = "label", !.ok = ~r.raised, !.applied = r.applied]
    /\ UNCHANGED <<rules, store, report, ledger, sav, jobs, pass, daily>>

NextRules ==
  \/ \E k \in RulePool : AddRule(k.keyword, k.category, k.field)
  \/ LabelTransactions

SpecRules == InitRules /\ [][NextRules]_vars

(***************************************************************************)
(* Classification claims (SpecRules).                                      *)
(***************************************************************************)
Labeled == op.name = "label" /\ op.ok

CoffeeRule == [match |-> <<"c","o","f","f","e","e">>, field |-> "remittance", category |-> Food, regex |-> FALSE]
ShopRule == [match |-> <<"s","h","o","p">>, field |-> "remittance", category |-> Shopping, regex |-> FALSE]
CoffeeShopText == <<"c","o","f","f","e","e"," ","s","h","o","p">>

MatchingRules(rs, row) == {k \in 1..Len(rs) : rule_condition(rs[k], row)}

SetMax(S) == CHOOSE m \in S : \A n \in S : n <= m

\* C1: after a relabel pass every transaction carries the category of the
\* LAST rule in list order that matches it (not the first); with the rules
\* [coffee -> Food, shop -> Shopping] the remittance "coffee shop" ends as
\* Shopping, with the two rules reversed it ends as Food.
C1_LastMatchingRuleWins ==
  Labeled =>
    \A i \in 1..Len(db) :
      /\ MatchingRules(rules.list, db[i]) # {} =>
           db[i].category = rules.list[SetMax(MatchingRules(rules.list, db[i]))].category
      /\ (rules.list = <<CoffeeRule, ShopRule>> /\ db[i].remittance = CoffeeShopText)
           => db[i].category = Shopping
      /\ (rules.list = <<ShopRule, CoffeeRule>> /\ db[i].remittance = CoffeeShopText)
           => db[i].category = Food

C1_Witness ==
  /\ Labeled
  /\ rules.list = <<CoffeeRule, ShopRule>>
  /\ \E i \in 1..Len(db) :
       /\ db[i].remittance = CoffeeShopText
       /\ MatchingRules(rules.list, db[i]) = {1, 2}
       /\ db[i].category = Shopping

WellFormedRule(rule) ==
  /\ rule.field \in Columns
  /\ (rule.regex /\ ~(rule.field = "amount" /\ is_numeric_pattern(rule.match)))
       => RegexCompiles(lower(rule.match))

\* C2: after classification every transaction that matches no rule has a
\* null category, an empty rule list leaves every transaction uncategorized,
\* and a pass over a well-formed rule list does not raise.
C2_UnmatchedStaysNull ==
  /\ Labeled =>
       \A i \in 1..Len(db) :
         MatchingRules(rules.list, db[i]) = {} => db[i].category = NULL
  /\ (Labeled /\ rules.list = <<>>) => \A i \in 1..Len(db) : db[i].category = NULL
  /\ (op.name = "label" /\ rules.exists
        /\ \A k \in 1..Len(rules.list) : WellFormedRule(rules.list[k])) => op.ok

C2_Witness ==
  /\ Labeled
  /\ rules.list # <<>>
  /\ \E i \in 1..Len(db) : \E j \in 1..Len(db) :
       /\ MatchingRules(rules.list, db[i]) = {} /\ db[i].category = NULL
       /\ MatchingRules(rules.list, db[j]) # {} /\ db[j].category # NULL

WithCategories(df, c) == [i \in 1..Len(df) |-> [df[i] EXCEPT !.category = c[i]]]

\* C3: the outcome of a relabel pass depends on the non-category fields and
\* the rule list only: a pass over an already classified table with the same
\* rules changes nothing, and the pass gives the same categories whatever
\* categories the table carried before it.
C3_ClassificationIgnoresPriorCategory ==
  [][(op'.name = "label" /\ op'.ok) =>
       /\ (Labeled /\ rules' = rules) => db' = db
       /\ apply_label_rules(db', rules').df = db'
       /\ \A c \in [1..Len(db) -> PriorCategories] :
            apply_label_rules(WithCategories(db, c), rules).df = db']_vars

C3_Witness ==
  /\ Labeled
  /\ \E i \in 1..Len(db) : db[i].category = NULL /\ MatchingRules(rules.list, db[i]) = {}
  /\ \E i \in 1..Len(db) : db[i].category = Food

(***************************************************************************)
(* Rule insertion claims (SpecRules).                                      *)
(***************************************************************************)
RuleList(rulesFile) == IF rulesFile.exists THEN rulesFile.list ELSE <<>>

HasPattern(rs, keyword) == \E i \in 1..Len(rs) : lower(rs[i].match) = lower(keyword)

NoDuplicatePatterns(rs) ==
  \A i \in 1..Len(rs) : \A j \in 1..Len(rs) :
    lower(rs[i].match) = lower(rs[j].match) => i = j

IsPrefix(a, b) == Len(a) <= Len(b) /\ SubSeq(b, 1, Len(a)) = a

AppendedRule(rs, before, keyword, category, field) ==
  /\ Len(rs) = Len(before) + 1
  /\ IsPrefix(before, rs)
  /\ rs[Len(rs)].match = keyword
  /\ rs[Len(rs)].category = category
  /\ rs[Len(rs)].field = field

\* C5 as stated: every add appends the rule at the end unless an existing
\* rule has the same pattern ignoring case.
C5_Original ==
  [][op'.name = "add_rule" =>
       IF HasPattern(RuleList(rules), strip(op'.keyword))
         THEN RuleList(rules') = RuleList(rules)
       ELSE AppendedRule(RuleList(rules'), RuleList(rules), strip(op'.keyword),
                         op'.category, op'.field)]_vars

\* C5, amended: an add whose keyword is blank after trimming leaves the list
\* unchanged; any other add appends the rule, with the trimmed keyword as
\* its pattern, at the end unless an existing rule has the same pattern
\* ignoring case, in which case the list is unchanged.  So no add creates
\* two rules with case-insensitively equal patterns and every earlier rule
\* keeps its content and position.
C5_AddRuleAppendsUnlessDuplicateOrBlank ==
  [][op'.name = "add_rule" =>
       /\ IF strip(op'.keyword) = <<>> \/ HasPattern(RuleList(rules), strip(op'.keyword))
            THEN rules' = rules
          ELSE AppendedRule(RuleList(rules'), RuleList(rules), strip(op'.keyword),
                            op'.category, op'.field)
       /\ IsPrefix(RuleList(rules), RuleList(rules'))
       /\ NoDuplicatePatterns(RuleList(rules)) => NoDuplicatePatterns(RuleList(rules'))]_vars

C5_Witness ==
  /\ op.name = "add_rule"
  /\ op.keyword = <<" ","C","O","F","F","E","E">>
  /\ Len(rules.list) = 2
  /\ rules.list[1] = CoffeeRule
  /\ rules.list[2] = ShopRule

(***************************************************************************)
(* Numeric rules (SpecNumeric): one rule on the amount column applied to a *)
(* one-row table.                                                          *)
(***************************************************************************)
\* the amount patterns and what each means: operator and value in cents
NumericCases ==
  { [keyword |-> <<">","1","0","0">>, cmp |-> ">", cents |-> 10000],
    [keyword |-> <<">"," ","1","0","0",".","5">>, cmp |-> ">", cents |-> 10050],
    [keyword |-> <<">","=","1","0","0">>, cmp |-> ">=", cents |-> 10000],
    [keyword |-> <<">","="," ","1","0","0",".","5">>, cmp |-> ">=", cents |-> 10050],
    [keyword |-> <<"<","1","0","0">>, cmp |-> "<", cents |-> 10000],
    [keyword |-> <<"<"," ","1","0","0",".","5">>, cmp |-> "<", cents |-> 10050],
    [keyword |-> <<"<","=","1","0","0">>, cmp |-> "<=", cents |-> 10000],
    [keyword |-> <<"<","="," ","1","0","0",".","5">>, cmp |-> "<=", cents |-> 10050],
    [keyword |-> <<"=","=","1","0","0">>, cmp |-> "==", cents |-> 10000],
    [keyword |-> <<"=","="," ","1","0","0",".","5">>, cmp |-> "==", cents |-> 10050],
    [keyword |-> <<"!","=","1","0","0">>, cmp |-> "!=", cents |-> 10000],
    [keyword |-> <<"!","="," ","1","0","0",".","5">>, cmp |-> "!=", cents |-> 10050],
    [keyword |-> <<"=","=","1","5","0">>, cmp |-> "==", cents |-> 15000],
    [keyword |-> <<"!","="," ","1","5","0",".","0","0">>, cmp |-> "!=", cents |-> 15000] }

\* amount patterns that are no <op><unsigned decimal>
OtherAmountKeywords == {<<"<","-","5","0">>, <<"-","2","0">>, <<">","1","e","3">>}

AmountPool == {15000, 10000, 10050, 9999, 0, -2000, -5000}

Compare(a, cmp, b) ==
  CASE cmp = ">" -> a > b [] cmp = ">=" -> a >= b [] cmp = "<" -> a < b
    [] cmp = "<=" -> a <= b [] cmp = "==" -> a = b [] cmp = "!=" -> a # b

InitNumeric ==
  /\ rules \in {add_rule_to_json(RulesFile(<<>>), k, Big, "amount") :
                  k \in {c.keyword : c \in NumericCases} \cup OtherAmountKeywords}
  /\ db \in {<<[transactionId |-> TxPool[1].transactionId,
                bookingDate |-> TxPool[1].bookingDate,
                amount |-> a, remittance |-> TxPool[1].remittance,
                category |-> c]>> : a \in AmountPool, c \in PriorCategories}
  /\ op = NoOp
  /\ store = <<>>
  /\ report = NoReport
  /\ ledger = NoLedger
  /\ sav = NoSav
  /\ jobs = NoJobs
  /\ pass = NoPass
  /\ daily = NoDaily

NextNumeric == LabelTransactions

SpecNumeric == InitNumeric /\ [][NextNumeric]_vars

\* C4: a rule on the amount column whose pattern is <op><number>, op one of
\* >, >=, <, <=, ==, !=, matches exactly the transactions whose amount
\* satisfies the comparison; ">100" matches 150.00 and does not match 100.00.
C4_NumericRuleComparesAmount ==
  Labeled =>
    \A c \in NumericCases :
      rules.list[1].match = c.keyword =>
        \A i \in 1..Len(db) :
          /\ (db[i].category = Big) <=> Compare(db[i].amount, c.cmp, c.cents)
          /\ (db[i].category # Big) => db[i].category = NULL
          /\ (c.keyword = <<">","1","0","0">> /\ db[i].amount = 15000) => db[i].category = Big
          /\ (c.keyword = <<">","1","0","0">> /\ db[i].amount = 10000) => db[i].category = NULL

C4_Witness ==
  /\ Labeled
  /\ rules.list[1].match = <<">","1","0","0">>
  /\ db[1].amount = 15000
  /\ db[1].category = Big

(***************************************************************************)
(* Dashboard aggregation (fin_dashboard.update_dashboard).  store holds    *)
(* the transactions of all accounts as load_account_data returns them,     *)
(* each row [id, account, bookingDate, amount, category]; id and account   *)
(* only tell the rows apart.  report is what the last call computed.       *)
(***************************************************************************)
Transfer == <<"T","r","a","n","s","f","e","r">>
Uncategorized == <<"U","n","c","a","t","e","g","o","r","i","z","e","d">>
IncomeWord == <<"i","n","c","o","m","e">>
SalaryIncome == <<"S","a","l","a","r","y","(","i","n","c","o","m","e",")">>
SideIncome == <<"S","i","d","e"," ","I","n","c","o","m","e">>
Fees == <<"F","e","e","s">>

TopN == 10

DashPool ==
  << [id |-> 1, account |-> "Daniel", bookingDate |-> <<2024, 1, 5>>, amount |-> -500,
      category |-> Fees],
     [id |-> 2, account |-> "Daniel", bookingDate |-> <<2024, 2, 1>>, amount |-> -2000,
      category |-> Food],
     [id |-> 3, account |-> "Daniel", bookingDate |-> <<2024, 2, 10>>, amount |-> -3000,
      category |-> Food],
     [id |-> 4, account |-> "Daniel", bookingDate |-> <<2024, 2, 15>>, amount |-> 200000,
      category |-> SalaryIncome],
     [id |-> 5, account |-> "Daniel", bookingDate |-> <<2024, 2, 10>>, amount |-> 1000,
      category |-> Food],
     [id |-> 6, account |-> "Daniel", bookingDate |-> <<2024, 2, 15>>, amount |-> -10000,
      category |-> Transfer],
     [id |-> 7, account |-> "Daniel", bookingDate |-> <<2024, 3, 3>>, amount |-> -4000,
      category |-> NULL],
     [id |-> 8, account |-> "Hansi", bookingDate |-> <<2024, 2, 20>>, amount |-> -700,
      category |-> SideIncome],
     [id |-> 9, account |-> "Hansi", bookingDate |-> <<2024, 1, 25>>, amount |-> 5000,
      category |-> Transfer] >>

Stores ==
  {[i \in 1..Len(q) |-> DashPool[q[i]]] : q \in IncSeqs(Len(DashPool), MaxStore) \ {<<>>}}

AccountOptions == {"Daniel", "Hansi"}

\* the month dropdown cleared: selected_month is None
NoMonth == <<0, 0>>

\* dt.strftime("%Y-%m"), compared as text
year_month(d) == <<d[1], d[2]>>

YMLess(a, b) == a[1] < b[1] \/ (a[1] = b[1] /\ a[2] < b[2])

DateLeq(a, b) ==
  \/ YMLess(year_month(a), year_month(b))
  \/ (year_month(a) = year_month(b) /\ a[3] <= b[3])

YearMonths(df) == {year_month(df[i].bookingDate) : i \in 1..Len(df)}

MinYM(S) == CHOOSE m \in S : \A n \in S : ~YMLess(n, m)

MaxYM(S) == CHOOSE m \in S : \A n \in S : ~YMLess(m, n)

Abs(x) == IF x < 0 THEN -x ELSE x

RECURSIVE SumAmount(_)
SumAmount(df) == IF df = <<>> THEN 0 ELSE Head(df).amount + SumAmount(Tail(df))

RECURSIVE SumNet(_)
SumNet(S) ==
  IF S = {} THEN 0
  ELSE LET g == CHOOSE g \in S : TRUE IN g.net + SumNet(S \ {g})

\* the orders in which the rows I of df can come out of sort("bookingDate")
\* (rows of equal date in any order)
RECURSIVE DateOrders(_, _)
DateOrders(df, I) ==
  IF I = {} THEN {<<>>}
  ELSE UNION {{<<i>> \o t : t \in DateOrders(df, I \ {i})} :
                i \in {i \in I : \A j \in I : DateLeq(df[i].bookingDate, df[j].bookingDate)}}

\* df.sort("bookingDate")
sort_bookingDate(df) ==
  {[k \in 1..Len(df) |-> df[q[k]]] : q \in DateOrders(df, 1..Len(df))}

\* month_options: the months of all accounts' transactions
month_options == YearMonths(store)

\* utils.load_account_data(accounts)
load_account_data(accounts) == SelectSeq(store, LAMBDA r : r.account \in accounts)

\* a variant that keeps the first month
drop_first_month_keep(df) ==
  [i \in 1..Len(df) |->
     IF df[i].category = NULL THEN [df[i] EXCEPT !.category = Uncategorized] ELSE df[i]]

\* the preprocessing: category.fill_null("Uncategorized"), then
\* filter(year_month > year_month.min())
drop_first_month(df) ==
  LET filled == [i \in 1..Len(df) |->
                   IF df[i].category = NULL THEN [df[i] EXCEPT !.category = Uncategorized]
                   ELSE df[i]]
      min == MinYM(YearMonths(filled))
  IN SelectSeq(filled, LAMBDA r : YMLess(min, year_month(r.bookingDate)))

\* df.filter(year_month <= selected_month)
up_to_month(df, sel) == SelectSeq(df, LAMBDA r : ~YMLess(sel, year_month(r.bookingDate)))

\* a variant that lets transfers through
non_transfer_of_all(df) == df

\* df.filter(category != "Transfer")
non_transfer_of(df) == SelectSeq(df, LAMBDA r : r.category # Transfer)

\* group_by(["year_month", "category"]).agg(sum("amount").alias("net"))
cat_monthly_net_of(nt) ==
  {[year_month |-> k[1], category |-> k[2],
    net |-> SumAmount(SelectSeq(nt, LAMBDA r : year_month(r.bookingDate) = k[1]
                                                 /\ r.category = k[2]))] :
     k \in {<<year_month(nt[i].bookingDate), nt[i].category>> : i \in 1..Len(nt)}}

\* a variant that tests the category name as written
is_income_category_case_sensitive(c) == contains_literal(c, IncomeWord)

\* category.str.to_lowercase().str.contains("income")
is_income_category(c) == contains_literal(lower(c), IncomeWord)

RECURSIVE SortedMonths(_)
SortedMonths(S) == IF S = {} THEN <<>> ELSE <<MinYM(S)>> \o SortedMonths(S \ {MinYM(S)})

\* group_by("year_month").agg([...]).sort("year_month")
monthly_stats_of(cmn) ==
  LET months == SortedMonths({g.year_month : g \in cmn}) IN
    [i \in 1..Len(months) |->
       [year_month |-> months[i],
        monthly_income |->
          SumNet({g \in cmn : g.year_month = months[i] /\ is_income_category(g.category)}),
        monthly_expense |->
          SumNet({g \in cmn : g.year_month = months[i] /\ ~is_income_category(g.category)})]]

RECURSIVE SumColumn(_, _)
SumColumn(ms, col) == IF ms = <<>> THEN 0 ELSE Head(ms)[col] + SumColumn(Tail(ms), col)

\* abs(df.filter(category == "Transfer").select(sum("amount")).item() or 0.0)
total_savings_of(df) == Abs(SumAmount(SelectSeq(df, LAMBDA r : r.category = Transfer)))

\* a / b of two floats: num / den, or ZeroDivisionError
FloatDiv(a, b) == [error |-> b = 0, num |-> a, den |-> IF b = 0 THEN 1 ELSE b]

Zero == [error |-> FALSE, num |-> 0, den |-> 1]

\* a variant without the zero-income guard
savings_rate_of_unguarded(total_savings, total_income) ==
  FloatDiv(total_savings * 100, total_income)

\* (total_savings / total_income * 100) if total_income else 0.0
savings_rate_of(total_savings, total_income) ==
  IF total_income # 0 THEN FloatDiv(total_savings * 100, total_income) ELSE Zero

\* select(mean(col)).item() or 0.0
mean_or_zero(ms, col) == IF ms = <<>> THEN Zero ELSE FloatDiv(SumColumn(ms, col), Len(ms))

\* the rows of the selected month and year
this_month_of(nt, sel) ==
  SelectSeq(nt, LAMBDA r : r.bookingDate[2] = sel[2] /\ r.bookingDate[1] = sel[1])

\* with_columns(amount.cum_sum().alias("cumulative"))
cum_sum(df) ==
  [i \in 1..Len(df) |->
     [id |-> df[i].id, bookingDate |-> df[i].bookingDate, amount |-> df[i].amount,
      category |-> df[i].category, cumulative |-> SumAmount(SubSeq(df, 1, i))]]

\* a variant that accumulates in stored order
cum_df_of_unsorted(nt, sel) == {cum_sum(this_month_of(nt, sel))}

\* .filter(th_month_filter).sort("bookingDate").with_columns(cum_sum)
cum_df_of(nt, sel) ==
  {cum_sum(sorted) :
     sorted \in sort_bookingDate(this_month_of(nt, sel))}

monthly_trend_of(ms) ==
  [i \in 1..Len(ms) |->
     [year_month |-> ms[i].year_month, total_income |-> ms[i].monthly_income,
      total_expense |-> Abs(ms[i].monthly_expense)]]

\* group_by("category").agg(sum("amount").alias("net")), expense = -net,
\* filter(expense > 0)
category_expense_of(rows) ==
  {g \in {[category |-> c,
           total |-> -SumAmount(SelectSeq(rows, LAMBDA r : r.category = c))] :
            c \in {rows[i].category : i \in 1..Len(rows)}} : g.total > 0}

\* the orders in which sort("expense", descending=False) can leave the
\* categories S (equal totals in any order)
RECURSIVE AscendingOrders(_)
AscendingOrders(S) ==
  IF S = {} THEN {<<>>}
  ELSE UNION {{<<g>> \o t : t \in AscendingOrders(S \ {g})} :
                g \in {g \in S : \A h \in S : g.total <= h.total}}

\* a variant that keeps the first n rows
head(q, n) == IF Len(q) > n THEN SubSeq(q, 1, n) ELSE q

\* q.tail(n)
tail(q, n) == IF Len(q) > n THEN SubSeq(q, Len(q) - n + 1, Len(q)) ELSE q

\* .sort("expense", descending=False).tail(10)
top_categories_of(rows) ==
  {tail(q, TopN) : q \in AscendingOrders(category_expense_of(rows))}

\* (-net).alias("monthly_cat_expense")
cat_monthly_exp_of(cmn) ==
  {[year_month |-> g.year_month, category |-> g.category, monthly_cat_expense |-> -g.net] :
     g \in cmn}

\* a float that is a quotient of two whole numbers of cents, or not a number
NaN == [nan |-> TRUE, num |-> 0, den |-> 1]

Ratio(n, d) == [nan |-> FALSE, num |-> n, den |-> d]

\* bool(x) of a float: 0.0 is false, every other value and nan are true
Truthy(x) == x.nan \/ x.num # 0

MonthIndex(ym) == ym[1] * 12 + ym[2] - 1

MonthOfIndex(n) == <<n \div 12, (n % 12) + 1>>

\* pd.period_range(start, end, freq="M"): empty when end is before start
period_range(start, end) ==
  [k \in 1..(IF MonthIndex(end) < MonthIndex(start) THEN 0
             ELSE MonthIndex(end) - MonthIndex(start) + 1) |->
     MonthOfIndex(MonthIndex(start) + k - 1)]

TrendWindow == 3

\* the complete monthly index from the first month of the pivot (or three
\* months back when it is empty) to the month before the selected one
full_idx_of(cme, sel) ==
  LET start == IF cme # {} THEN MinYM({g.year_month : g \in cme})
               ELSE MonthOfIndex(MonthIndex(sel) - TrendWindow)
      prev_month == MonthOfIndex(MonthIndex(sel) - 1)
  IN period_range(start, prev_month)

RECURSIVE SumExpense(_)
SumExpense(S) ==
  IF S = {} THEN 0
  ELSE LET g == CHOOSE g \in S : TRUE IN g.monthly_cat_expense + SumExpense(S \ {g})

\* a variant that averages over the months present in the pivot, without the
\* reindex to a complete monthly index
prev3_avgs_of_no_reindex(cme, sel) ==
  LET present == SortedMonths({g.year_month : g \in {h \in cme : YMLess(h.year_month, sel)}})
      window == IF Len(present) < TrendWindow THEN Len(present) ELSE TrendWindow
      last == {present[k] : k \in (Len(present) - window + 1)..Len(present)}
  IN {[category |-> c,
       avg_prev3 |->
         IF window = 0 THEN NaN
         ELSE Ratio(SumExpense({g \in cme : g.category = c /\ g.year_month \in last}),
                    window)] :
        c \in {g.category : g \in cme}}

\* piv.reindex(full_idx, fill_value=0).tail(window).mean()
prev3_avgs_of(cme, sel) ==
  LET full_idx == full_idx_of(cme, sel)
      window == IF Len(full_idx) < TrendWindow THEN Len(full_idx) ELSE TrendWindow
      last == {full_idx[k] : k \in (Len(full_idx) - window + 1)..Len(full_idx)}
  IN {[category |-> c,
       avg_prev3 |->
         IF window = 0 THEN NaN
         ELSE Ratio(SumExpense({g \in cme : g.category = c /\ g.year_month \in last}),
                    window)] :
        c \in {g.category : g \in cme}}

\* pivot[pivot["year_month"] == curr].groupby("category").sum()
curr_exp_of(cme, sel) ==
  {[category |-> g.category, curr_expense |-> g.monthly_cat_expense] :
     g \in {g \in cme : g.year_month = sel}}

\* a variant without the zero-average guard
pct_change_of_unguarded(curr_expense, avg_prev3) ==
  IF avg_prev3.nan THEN NaN
  ELSE Ratio((curr_expense * avg_prev3.den - avg_prev3.num) * 100, avg_prev3.num)

\* (abs_change / avg_prev3 * 100) if avg_prev3 else 0.0
pct_change_of(curr_expense, avg_prev3) ==
  IF Truthy(avg_prev3)
    THEN IF avg_prev3.nan THEN NaN
         ELSE Ratio((curr_expense * avg_prev3.den - avg_prev3.num) * 100, avg_prev3.num)
  ELSE Ratio(0, 1)

\* pd.merge(curr_exp, prev3_avgs, on="category", how="inner") with abs_change
\* and pct_change
trend_df_of(cme, sel) ==
  {[category |-> c.category,
    curr_expense |-> c.curr_expense,
    avg_prev3 |-> a.avg_prev3,
    abs_change |-> IF a.avg_prev3.nan THEN NaN
                   ELSE Ratio(c.curr_expense * a.avg_prev3.den - a.avg_prev3.num,
                              a.avg_prev3.den),
    pct_change |-> pct_change_of(c.curr_expense, a.avg_prev3)] :
     <<c, a>> \in {x \in curr_exp_of(cme, sel) \X prev3_avgs_of(cme, sel) :
                     x[1].category = x[2].category}}

Rent == <<"R","e","n","t">>
Hobby == <<"H","o","b","b","y">>
Other == <<"O","t","h","e","r">>

\* constants.BUDGETS, the category -> limit table
budgets ==
  [c \in {Food, Rent, Other} |->
     IF c = Food THEN 30000 ELSE IF c = Rent THEN 100000 ELSE 20000]

\* group_by("category").agg(sum("amount")) of the selected month, expense = -net
month_expenses_of(rows) ==
  {[category |-> c, expense |-> -SumAmount(SelectSeq(rows, LAMBDA r : r.category = c))] :
     c \in {rows[i].category : i \in 1..Len(rows)}}

RECURSIVE SumOfExpense(_)
SumOfExpense(S) ==
  IF S = {} THEN 0
  ELSE LET g == CHOOSE g \in S : TRUE IN g.expense + SumOfExpense(S \ {g})

\* month_expenses.filter(~category.is_in(known_cats)).select(sum("expense"))
other_amt_of(me) == SumOfExpense({g \in me : g.category \notin DOMAIN budgets})

\* the spent dictionary: one entry per budget category except "Other", then "Other"
spent_of(rows) ==
  LET me == month_expenses_of(rows) IN
    [c \in (DOMAIN budgets) \cup {Other} |->
       IF c = Other THEN other_amt_of(me)
       ELSE SumOfExpense({g \in me : g.category = c})]

\* budget_df: Category, Budget, Spent, Remaining
budget_df_of(spent) ==
  [c \in DOMAIN budgets |->
     [Budget |-> budgets[c], Spent |-> spent[c], Remaining |-> budgets[c] - spent[c]]]

Message(text, accounts, month) ==
  [status |-> text, selected_accounts |-> accounts, selected_month |-> month]

\* update_dashboard(selected_accounts, selected_month, blur_values)
UpdateDashboard(selected_accounts, selected_month) ==
  LET loaded == load_account_data(selected_accounts) IN
    /\ IF selected_accounts = {}
         THEN report' = Message("Please select at least one account.",
                                selected_accounts, selected_month)
       ELSE IF loaded = <<>>
         THEN report' = Message("No data found for selected accounts.",
                                selected_accounts, selected_month)
       ELSE
         LET first == drop_first_month(loaded)
             sel == IF selected_month # NoMonth THEN selected_month
                    ELSE IF first = <<>> THEN NoMonth
                    ELSE MaxYM(YearMonths(first))
             df == up_to_month(first, sel)
             nt == non_transfer_of(df)
             cmn == cat_monthly_net_of(nt)
             ms == monthly_stats_of(cmn)
             income == SumColumn(ms, "monthly_income")
             savings == total_savings_of(df)
             rate == savings_rate_of(savings, income)
         IN IF sel = NoMonth \/ rate.error
              THEN report' = Message("error", selected_accounts, selected_month)
            ELSE \E cum \in cum_df_of(nt, sel) :
                 \E top_all \in top_categories_of(nt) :
                 \E top_this_month \in top_categories_of(this_month_of(nt, sel)) :
                   report' =
                     [status |-> "ok",
                      selected_accounts |-> selected_accounts,
                      selected_month |-> sel,
                      non_transfer |-> nt,
                      this_month |-> this_month_of(nt, sel),
                      monthly_stats |-> ms,
                      total_income |-> income,
                      total_expenses |-> SumColumn(ms, "monthly_expense"),
                      total_savings |-> savings,
                      savings_rate |-> rate,
                      monthly_avg_income |-> mean_or_zero(ms, "monthly_income"),
                      monthly_avg_expense |-> mean_or_zero(ms, "monthly_expense"),
                      cum_df |-> cum,
                      monthly_trend |-> monthly_trend_of(ms),
                      top_all |-> top_all,
                      top_this_month |-> top_this_month,
                      trend_df |-> trend_df_of(cat_monthly_exp_of(cmn), sel),
                      spent |-> spent_of(this_month_of(nt, sel)),
                      budget_df |-> budget_df_of(spent_of(this_month_of(nt, sel)))]
    /\ UNCHANGED <<rules, db, op, store, ledger, sav, jobs, pass, daily>>

InitDash ==
  /\ store \in Stores
  /\ report = NoReport
  /\ rules = NoFile
  /\ db = <<>>
  /\ op = NoOp
  /\ ledger = NoLedger
  /\ sav = NoSav
  /\ jobs = NoJobs
  /\ pass = NoPass
  /\ daily = NoDaily

NextDash ==
  \E accounts \in SUBSET AccountOptions :
    \E month \in month_options \cup {NoMonth} : UpdateDashboard(accounts, month)

SpecDash == InitDash /\ [][NextDash]_vars

(***************************************************************************)
(* Aggregation claims (SpecDash).  The expected figures are computed from  *)
(* the stored rows directly, by row id.                                    *)
(***************************************************************************)
Ok == report.status = "ok"

Ids(df) == {df[i].id : i \in 1..Len(df)}

StoredIds(accounts) == {store[i].id : i \in {j \in 1..Len(store) : store[j].account \in accounts}}

MonthOf(id) == year_month(DashPool[id].bookingDate)

\* the rows of the selected accounts later than their earliest month and not
\* later than the reporting month
InScope(accounts, month) ==
  {id \in StoredIds(accounts) :
     /\ \E other \in StoredIds(accounts) : YMLess(MonthOf(other), MonthOf(id))
     /\ ~YMLess(month, MonthOf(id))}

IsTransfer(id) == DashPool[id].category = Transfer

NamesIncome(id) ==
  LET c == DashPool[id].category IN
    c # NULL /\ \E i \in 1..Len(c) : i + 5 <= Len(c) /\ lower(SubSeq(c, i, i + 5)) = IncomeWord

RECURSIVE SumIds(_)
SumIds(S) ==
  IF S = {} THEN 0
  ELSE LET id == CHOOSE id \in S : TRUE IN DashPool[id].amount + SumIds(S \ {id})

ScopeNonTransfer == {id \in InScope(report.selected_accounts, report.selected_month) : ~IsTransfer(id)}

ScopeTransfer == {id \in InScope(report.selected_accounts, report.selected_month) : IsTransfer(id)}

ReportMonthNonTransfer == {id \in ScopeNonTransfer : MonthOf(id) = report.selected_month}

\* C6: the transactions that enter an aggregation are exactly those of the
\* selected accounts whose month is strictly later than the earliest month
\* present in the selected accounts and not later than the reporting month.
C6_ScopeFilter ==
  Ok =>
    /\ Ids(report.non_transfer) = ScopeNonTransfer
    /\ Len(report.non_transfer) = Cardinality(ScopeNonTransfer)
    /\ report.total_income + report.total_expenses = SumIds(ScopeNonTransfer)
    /\ report.total_savings = Abs(SumIds(ScopeTransfer))
    /\ Ids(report.cum_df) \subseteq ScopeNonTransfer
    /\ \A i \in 1..Len(report.monthly_stats) :
         /\ ~YMLess(report.selected_month, report.monthly_stats[i].year_month)
         /\ \E id \in StoredIds(report.selected_accounts) :
              YMLess(MonthOf(id), report.monthly_stats[i].year_month)
    /\ \A i \in 1..Len(report.top_all) :
         report.top_all[i].total =
           -SumIds({id \in ScopeNonTransfer :
                      report.top_all[i].category =
                        (IF DashPool[id].category = NULL THEN Uncategorized
                         ELSE DashPool[id].category)})

C6_Witness ==
  /\ Ok
  /\ ScopeNonTransfer # {}
  /\ \E id \in StoredIds(report.selected_accounts) :
       ~IsTransfer(id) /\ YMLess(report.selected_month, MonthOf(id))
  /\ \E id \in StoredIds(report.selected_accounts) :
       /\ ~IsTransfer(id)
       /\ \A other \in StoredIds(report.selected_accounts) : ~YMLess(MonthOf(other), MonthOf(id))
       /\ id \notin Ids(report.non_transfer)

\* C7: transactions of category Transfer contribute to no monthly income or
\* expense total, cumulative curve or category ranking, and totalSavings is
\* the absolute value of the sum of the in-scope Transfer amounts.
C7_TransfersOnlyInSavings ==
  Ok =>
    /\ \A i \in 1..Len(report.non_transfer) : report.non_transfer[i].category # Transfer
    /\ \A i \in 1..Len(report.cum_df) : report.cum_df[i].category # Transfer
    /\ \A i \in 1..Len(report.top_all) : report.top_all[i].category # Transfer
    /\ \A i \in 1..Len(report.top_this_month) : report.top_this_month[i].category # Transfer
    /\ \A i \in 1..Len(report.monthly_stats) :
         report.monthly_stats[i].monthly_income + report.monthly_stats[i].monthly_expense =
           SumIds({id \in ScopeNonTransfer : MonthOf(id) = report.monthly_stats[i].year_month})
    /\ report.cum_df # <<>> =>
         report.cum_df[Len(report.cum_df)].cumulative = SumIds(ReportMonthNonTransfer)
    /\ report.total_savings = Abs(SumIds(ScopeTransfer))

C7_Witness ==
  /\ Ok
  /\ \E id \in ScopeTransfer : MonthOf(id) = report.selected_month
  /\ report.total_savings > 0
  /\ report.cum_df # <<>>
  /\ report.top_all # <<>>

StatsOfMonth(month) ==
  {i \in 1..Len(report.monthly_stats) : report.monthly_stats[i].year_month = month}

ScenarioInScope ==
  /\ report.selected_month = <<2024, 2>>
  /\ ReportMonthNonTransfer = {2, 3, 4}

\* C8 as stated: in the reporting month monthly_income is the sum of the
\* positive amounts and monthly_expense the magnitude of the sum of the
\* negative amounts of the (in-scope) non-transfer transactions.
C8_Original ==
  Ok =>
    \A i \in StatsOfMonth(report.selected_month) :
      /\ report.monthly_trend[i].total_income =
           SumIds({id \in ReportMonthNonTransfer : DashPool[id].amount > 0})
      /\ report.monthly_trend[i].total_expense =
           -SumIds({id \in ReportMonthNonTransfer : DashPool[id].amount < 0})

\* C8, amended: over the in-scope non-transfer transactions of a month,
\* monthly_income is the sum of the signed amounts of the transactions whose
\* category name contains "income" (ignoring case) and monthly_expense is the
\* sum of the signed amounts of all the others, shown in the monthly trend as
\* its absolute value.  With 2024-02 in scope, the three transactions of the
\* scenario give monthly_expense = 50 and monthly_income = 2000.
C8_IncomeExpenseByCategory ==
  Ok =>
    /\ \A i \in 1..Len(report.monthly_stats) :
         LET rows == {id \in ScopeNonTransfer : MonthOf(id) = report.monthly_stats[i].year_month}
         IN /\ rows # {}
            /\ report.monthly_stats[i].monthly_income = SumIds({id \in rows : NamesIncome(id)})
            /\ report.monthly_stats[i].monthly_expense = SumIds({id \in rows : ~NamesIncome(id)})
            /\ report.monthly_trend[i].total_income = report.monthly_stats[i].monthly_income
            /\ report.monthly_trend[i].total_expense =
                 Abs(SumIds({id \in rows : ~NamesIncome(id)}))
    /\ ReportMonthNonTransfer # {} => StatsOfMonth(report.selected_month) # {}
    /\ ScenarioInScope =>
         \A i \in StatsOfMonth(report.selected_month) :
           /\ report.monthly_trend[i].total_expense = 5000
           /\ report.monthly_trend[i].total_income = 200000

C8_Witness ==
  /\ Ok
  /\ ScenarioInScope
  /\ \E i \in StatsOfMonth(report.selected_month) :
       /\ report.monthly_trend[i].total_expense = 5000
       /\ report.monthly_trend[i].total_income = 200000

\* C9 as stated: the cumulative curve contains exactly the non-transfer
\* transactions of the reporting month.
C9_Original ==
  Ok =>
    Ids(report.cum_df) =
      {id \in StoredIds(report.selected_accounts) :
         ~IsTransfer(id) /\ MonthOf(id) = report.selected_month}

\* C9, amended: the cumulative curve contains exactly the in-scope
\* non-transfer transactions of the reporting month (none when the reporting
\* month is the earliest month of the selected accounts, which the scope
\* filter drops), in ascending date order, and its value at each point is the
\* running sum of the signed amounts up to and including that transaction;
\* in the scenario, with 2024-02 in scope, its value at 2024-02-15 is 1950.
C9_CumulativeCurve ==
  Ok =>
    /\ Ids(report.cum_df) = ReportMonthNonTransfer
    /\ Len(report.cum_df) = Cardinality(ReportMonthNonTransfer)
    /\ \A i \in 1..Len(report.cum_df) :
         /\ report.cum_df[i].amount = DashPool[report.cum_df[i].id].amount
         /\ report.cum_df[i].bookingDate = DashPool[report.cum_df[i].id].bookingDate
         /\ report.cum_df[i].cumulative =
              SumIds({report.cum_df[j].id : j \in 1..i})
         /\ i > 1 => DateLeq(report.cum_df[i - 1].bookingDate, report.cum_df[i].bookingDate)
    /\ (\A id \in StoredIds(report.selected_accounts) :
          ~YMLess(MonthOf(id), report.selected_month)) => report.cum_df = <<>>
    /\ ScenarioInScope =>
         \A i \in 1..Len(report.cum_df) :
           report.cum_df[i].bookingDate = <<2024, 2, 15>> => report.cum_df[i].cumulative = 195000

C9_Witness ==
  /\ Ok
  /\ ScenarioInScope
  /\ Len(report.cum_df) = 3
  /\ report.cum_df[3].bookingDate = <<2024, 2, 15>>
  /\ report.cum_df[3].cumulative = 195000

\* C10: savingsRate = totalSavings / totalIncome * 100 when totalIncome is
\* not 0 and savingsRate = 0 when totalIncome is 0; no call divides by zero.
C10_SavingsRateGuard ==
  /\ Ok =>
       /\ ~report.savings_rate.error
       /\ report.savings_rate.den # 0
       /\ report.total_income = SumIds({id \in ScopeNonTransfer : NamesIncome(id)})
       /\ IF report.total_income # 0
            THEN /\ report.savings_rate.num = report.total_savings * 100
                 /\ report.savings_rate.den = report.total_income
          ELSE report.savings_rate.num = 0
  /\ report.status = "error" => report.selected_month = NoMonth

C10_Witness ==
  /\ Ok
  /\ report.total_income = 0
  /\ report.total_savings > 0
  /\ report.savings_rate.num = 0

(***************************************************************************)
(* Trend and budget claims.  The stored rows span six calendar months,     *)
(* one of them without any transaction, so that every window length and    *)
(* the zero fill occur.                                                    *)
(***************************************************************************)
TrendPool ==
  << [id |-> 1, account |-> "Daniel", bookingDate |-> <<2023, 11, 11>>, amount |-> -500,
      category |-> Fees],
     [id |-> 2, account |-> "Daniel", bookingDate |-> <<2023, 12, 10>>, amount |-> -10000,
      category |-> Transfer],
     [id |-> 3, account |-> "Daniel", bookingDate |-> <<2023, 12, 20>>, amount |-> -2000,
      category |-> Food],
     [id |-> 4, account |-> "Daniel", bookingDate |-> <<2024, 1, 5>>, amount |-> -3000,
      category |-> Food],
     [id |-> 5, account |-> "Daniel", bookingDate |-> <<2024, 1, 7>>, amount |-> -5000,
      category |-> Hobby],
     [id |-> 6, account |-> "Daniel", bookingDate |-> <<2024, 3, 1>>, amount |-> -6000,
      category |-> Food],
     [id |-> 7, account |-> "Daniel", bookingDate |-> <<2024, 3, 15>>, amount |-> 200000,
      category |-> SalaryIncome],
     [id |-> 8, account |-> "Daniel", bookingDate |-> <<2024, 3, 20>>, amount |-> -5000,
      category |-> Hobby],
     [id |-> 9, account |-> "Daniel", bookingDate |-> <<2024, 4, 3>>, amount |-> -4000,
      category |-> Food] >>

TrendStores ==
  {[i \in 1..Len(q) |-> TrendPool[q[i]]] : q \in IncSeqs(Len(TrendPool), MaxStore) \ {<<>>}}

InitTrend ==
  /\ store \in TrendStores
  /\ report = NoReport
  /\ rules = NoFile
  /\ db = <<>>
  /\ op = NoOp
  /\ ledger = NoLedger
  /\ sav = NoSav
  /\ jobs = NoJobs
  /\ pass = NoPass
  /\ daily = NoDaily

SpecTrend == InitTrend /\ [][NextDash]_vars

\* the stored rows of the selected accounts
SelectedRows == {store[i] : i \in {j \in 1..Len(store) : store[j].account \in report.selected_accounts}}

RowMonth(r) == year_month(r.bookingDate)

RowCategory(r) == IF r.category = NULL THEN Uncategorized ELSE r.category

\* the rows in scope: later than the earliest month of the selected accounts,
\* not later than the reporting month
ScopeRows ==
  {r \in SelectedRows :
     /\ \E other \in SelectedRows : YMLess(RowMonth(other), RowMonth(r))
     /\ ~YMLess(report.selected_month, RowMonth(r))}

ScopeRowsNonTransfer == {r \in ScopeRows : r.category # Transfer}

RECURSIVE SumRows(_)
SumRows(S) ==
  IF S = {} THEN 0 ELSE LET r == CHOOSE r \in S : TRUE IN r.amount + SumRows(S \ {r})

\* the expense of category c in the month k months before the reporting month
ExpenseBefore(c, k) ==
  -SumRows({r \in ScopeRowsNonTransfer :
              /\ RowCategory(r) = c
              /\ MonthIndex(RowMonth(r)) = MonthIndex(report.selected_month) - k})

\* the number of calendar months from the earliest month of the rows S to the
\* month before the reporting month
MonthsBefore(S) ==
  MonthIndex(report.selected_month) - MonthIndex(MinYM({RowMonth(r) : r \in S}))

Min(a, b) == IF a < b THEN a ELSE b

TrendRow(c) == {t \in report.trend_df : t.category = c}

\* C11: for every category of the trend table, pct_change is
\* (curr_expense - avg_prev3) / avg_prev3 * 100 when avg_prev3 is not 0 and 0
\* when avg_prev3 is 0, and no quotient has a zero divisor.
C11_TrendGuard ==
  Ok =>
    /\ \A t \in report.trend_df :
         /\ t.curr_expense = ExpenseBefore(t.category, 0)
         /\ t.pct_change.den # 0
         /\ (~t.avg_prev3.nan /\ t.avg_prev3.num = 0) => t.pct_change = Ratio(0, 1)
         /\ (~t.avg_prev3.nan /\ t.avg_prev3.num # 0) =>
              t.pct_change =
                Ratio((t.curr_expense * t.avg_prev3.den - t.avg_prev3.num) * 100,
                      t.avg_prev3.num)
         /\ t.avg_prev3.nan => t.pct_change.nan
    /\ \A r \in ScopeRowsNonTransfer :
         RowMonth(r) = report.selected_month => TrendRow(RowCategory(r)) # {}

C11_Witness ==
  /\ Ok
  /\ \E t \in report.trend_df :
       ~t.avg_prev3.nan /\ t.avg_prev3.num = 0 /\ t.curr_expense > 0 /\ t.pct_change = Ratio(0, 1)
  /\ \E t \in report.trend_df :
       ~t.avg_prev3.nan /\ t.avg_prev3.num > 0 /\ t.pct_change.num # 0

\* C12 as stated: the series of a category starts at the earliest month in
\* scope (the earliest month of any in-scope transaction).
C12_Original ==
  Ok =>
    \A t \in report.trend_df :
      LET n == MonthsBefore(ScopeRows)
          w == Min(TrendWindow, n)
      IN n >= 1 =>
           t.avg_prev3 =
             Ratio(ExpenseBefore(t.category, 1) + (IF w >= 2 THEN ExpenseBefore(t.category, 2) ELSE 0)
                     + (IF w >= 3 THEN ExpenseBefore(t.category, 3) ELSE 0), w)

\* C12, amended: avg_prev3 of a category is the mean of the last
\* min(3, available months) entries of its monthly expense series, where the
\* series runs over every calendar month from the earliest month that has an
\* in-scope non-transfer transaction to the month before the reporting month
\* (at least one such month) and a month without activity in the category
\* counts as 0.
C12_TrailingAverage ==
  Ok =>
    \A t \in report.trend_df :
      LET n == MonthsBefore(ScopeRowsNonTransfer)
          w == Min(TrendWindow, n)
      IN n >= 1 =>
           t.avg_prev3 =
             Ratio(ExpenseBefore(t.category, 1) + (IF w >= 2 THEN ExpenseBefore(t.category, 2) ELSE 0)
                     + (IF w >= 3 THEN ExpenseBefore(t.category, 3) ELSE 0), w)

C12_Witness ==
  /\ Ok
  /\ ScopeRowsNonTransfer # {}
  /\ MonthsBefore(ScopeRowsNonTransfer) > TrendWindow
  /\ \E t \in report.trend_df :
       /\ t.avg_prev3 = Ratio(3000, 3)
       /\ ExpenseBefore(t.category, 3) = 3000
       /\ ExpenseBefore(t.category, 2) = 0
       /\ ExpenseBefore(t.category, 4) = 2000

\* C13 as stated: when the reporting month has no earlier month in scope,
\* avg_prev3 and pct_change of every category are 0.
C13_Original ==
  (Ok /\ ScopeRowsNonTransfer # {} /\ MonthsBefore(ScopeRowsNonTransfer) = 0) =>
    \A t \in report.trend_df :
      /\ t.avg_prev3 = Ratio(0, 1)
      /\ t.pct_change = Ratio(0, 1)

\* the budget categories of the spec's example
ExampleBudget == DOMAIN budgets \ {Other} = {Food, Rent}

ReportMonthRows == {r \in ScopeRowsNonTransfer : RowMonth(r) = report.selected_month}

CategoriesOf(S) == {RowCategory(r) : r \in S}

RECURSIVE SumOver(_, _)
SumOver(S, f) ==
  IF S = {} THEN 0 ELSE LET c == CHOOSE c \in S : TRUE IN f[c] + SumOver(S \ {c}, f)

\* C14 as stated: spent["Other"] is the expense total, max(-net, 0) per
\* category, of the categories of the reporting month that are not budget
\* keys; 50 in Hobby gives spent["Other"] = 50.
C14_Original ==
  Ok =>
    LET cats == CategoriesOf(ReportMonthRows) \ DOMAIN budgets
        expense == [c \in cats |->
                      LET net == SumRows({r \in ReportMonthRows : RowCategory(r) = c})
                      IN IF net < 0 THEN -net ELSE 0]
    IN /\ report.spent[Other] = SumOver(cats, expense)
       /\ (ExampleBudget /\ Hobby \in cats /\ expense[Hobby] = 5000
             /\ \A c \in cats \ {Hobby} : expense[c] = 0) => report.spent[Other] = 5000

(***************************************************************************)
(* Category rankings.  The stored rows hold more than ten categories with  *)
(* a negative net, one with a positive net and two with equal expense.     *)
(***************************************************************************)
MaxAbsent == 2

\* the category names K1 .. K12
Kat(n) == <<"K">> \o NatToDigits(n)

TopPool ==
  << [id |-> 1, account |-> "Daniel", bookingDate |-> <<2024, 1, 5>>, amount |-> -500,
      category |-> Fees] >>
  \o [n \in 1..12 |->
        [id |-> n + 1, account |-> "Daniel", bookingDate |-> <<2024, 2, n>>,
         amount |-> IF n = 12 THEN 700 ELSE IF n = 6 THEN -500 ELSE -(100 * n),
         category |-> Kat(n)]]
  \o << [id |-> 14, account |-> "Daniel", bookingDate |-> <<2024, 3, 2>>, amount |-> -100,
         category |-> Kat(1)] >>

\* the rows a store may lack: the first month's row, the smallest category, one
\* of the two equal ones, the largest, the net-positive one and the later month
Droppable == {1, 2, 7, 12, 13, 14}

\* the pool without at most MaxAbsent of the droppable rows
TopStores ==
  {SelectSeq(TopPool, LAMBDA r : r.id \notin absent) :
     absent \in {A \in SUBSET Droppable : Cardinality(A) <= MaxAbsent}}

InitTop ==
  /\ store \in TopStores
  /\ report = NoReport
  /\ rules = NoFile
  /\ db = <<>>
  /\ op = NoOp
  /\ ledger = NoLedger
  /\ sav = NoSav
  /\ jobs = NoJobs
  /\ pass = NoPass
  /\ daily = NoDaily

SpecTop == InitTop /\ [][NextDash]_vars

\* the expense of category c over the rows S
ExpenseOf(c, S) == -SumRows({r \in S : RowCategory(r) = c})

NetNegative(S) == {c \in CategoriesOf(S) : ExpenseOf(c, S) > 0}

\* L lists net-negative categories of the rows S with their expense, at most
\* TopN of them and none smaller than a category left out
RanksLargest(L, S) ==
  /\ Len(L) = Min(TopN, Cardinality(NetNegative(S)))
  /\ \A i \in 1..Len(L) :
       /\ L[i].category \in NetNegative(S)
       /\ L[i].total = ExpenseOf(L[i].category, S)
       /\ \A j \in 1..Len(L) : L[i].category = L[j].category => i = j
       /\ \A c \in NetNegative(S) :
            (\A j \in 1..Len(L) : L[j].category # c) => ExpenseOf(c, S) <= L[i].total

\* C15 as stated: both rankings are in descending order of expense.
C15_Original ==
  Ok =>
    /\ RanksLargest(report.top_all, ScopeRowsNonTransfer)
    /\ RanksLargest(report.top_this_month, ReportMonthRows)
    /\ \A i \in 1..(Len(report.top_all) - 1) :
         report.top_all[i].total >= report.top_all[i + 1].total
    /\ \A i \in 1..(Len(report.top_this_month) - 1) :
         report.top_this_month[i].total >= report.top_this_month[i + 1].total

\* C15, amended: both rankings list only categories whose net amount is
\* negative, at most 10 of them, these being the 10 largest by expense, in
\* ascending order of expense (the largest last).
C15_TopCategories ==
  Ok =>
    /\ RanksLargest(report.top_all, ScopeRowsNonTransfer)
    /\ RanksLargest(report.top_this_month, ReportMonthRows)
    /\ \A i \in 1..(Len(report.top_all) - 1) :
         report.top_all[i].total <= report.top_all[i + 1].total
    /\ \A i \in 1..(Len(report.top_this_month) - 1) :
         report.top_this_month[i].total <= report.top_this_month[i + 1].total

C15_Witness ==
  /\ Ok
  /\ Cardinality(NetNegative(ReportMonthRows)) > TopN
  /\ CategoriesOf(ReportMonthRows) # NetNegative(ReportMonthRows)
  /\ Len(report.top_this_month) = TopN
  /\ report.top_this_month[1].total < report.top_this_month[TopN].total

(***************************************************************************)
(* Savings ledger (code/savings_entry.py).  ledger is the CSV file: whether *)
(* it exists and its rows as read_csv returns them, each row               *)
(* [bookingDate, partner, partnerIBAN, remittance, purpose, amount] with   *)
(* text or NULL in the text columns.  sav is what the last click on the    *)
(* form returned, together with the form values it was given.              *)
(***************************************************************************)
MaxLedger == 2

\* re.sub(r"\s", "", s)
remove_whitespace(s) == SelectSeq(s, LAMBDA c : ~IsSpace(c))

\* s.replace(a, "")
remove_char(s, a) == SelectSeq(s, LAMBDA c : c # a)

\* s.replace(a, b)
replace_char(s, a, b) == [i \in 1..Len(s) |-> IF s[i] = a THEN b ELSE s[i]]

UpperChar(c) ==
  IF \E u \in DOMAIN UpperToLower : UpperToLower[u] = c
    THEN CHOOSE u \in DOMAIN UpperToLower : UpperToLower[u] = c
  ELSE c

\* str.upper
upper(s) == [i \in 1..Len(s) |-> UpperChar(s[i])]

\* a call that raised ValueError(reason) or returned value
Raised(text) == [error |-> TRUE, reason |-> text, value |-> 0]

Returned(v) == [error |-> FALSE, reason |-> "", value |-> v]

\* float(s) of a decimal numeral with an optional sign, in cents (the
\* numerals of the model have at most two fraction digits)
float(s) ==
  LET signed == s # <<>> /\ Head(s) \in {"+", "-"}
      body == IF signed THEN Tail(s) ELSE s
      dots == {i \in 1..Len(body) : body[i] = "."}
      dot == IF dots = {} THEN Len(body) + 1 ELSE CHOOSE i \in dots : TRUE
      int == SubSeq(body, 1, dot - 1)
      frac == SubSeq(body, dot + 1, Len(body))
      wellformed == /\ Cardinality(dots) <= 1
                    /\ int \o frac # <<>>
                    /\ \A i \in 1..Len(int) : int[i] \in Digits
                    /\ \A i \in 1..Len(frac) : frac[i] \in Digits
      cents == (IF int = <<>> THEN 0 ELSE DigitsToNat(int)) * 100
                 + (IF Len(frac) >= 1 THEN DigitVal(frac[1]) * 10 ELSE 0)
                 + (IF Len(frac) >= 2 THEN DigitVal(frac[2]) ELSE 0)
  IN IF ~wellformed THEN Raised("could not convert string to float")
     ELSE Returned(IF signed /\ Head(s) = "-" THEN -cents ELSE cents)

\* _normalize_amount_str(val)
normalize_amount_str(val) ==
  IF val = NULL \/ strip(val) = <<>> THEN Raised("Amount is required.")
  ELSE LET s == replace_char(remove_char(remove_whitespace(strip(val)), "."), ",", ".") IN
         IF s \in {<<".">>, <<>>} THEN Raised("Invalid amount.") ELSE float(s)

\* _normalize_iban(iban)
normalize_iban(iban) == IF iban = NULL THEN <<>> ELSE upper(remove_whitespace(iban))

\* _normalize_text(x)
normalize_text(x) == IF x = NULL THEN <<>> ELSE strip(x)

IsLeap(y) == (y % 4 = 0 /\ y % 100 # 0) \/ y % 400 = 0

DaysInMonth(y, m) ==
  IF m = 2 THEN (IF IsLeap(y) THEN 29 ELSE 28)
  ELSE IF m \in {4, 6, 9, 11} THEN 30 ELSE 31

ValidDate(y, m, d) == y >= 1 /\ m \in 1..12 /\ d \in 1..DaysInMonth(y, m)

\* n in decimal, zero-padded to w digits
Pad(n, w) ==
  LET t == NatToDigits(n) IN [i \in 1..(w - Len(t)) |-> "0"] \o t

\* date.isoformat()
isoformat(d) == Pad(d[1], 4) \o <<"-">> \o Pad(d[2], 2) \o <<"-">> \o Pad(d[3], 2)

\* re.match(r"^\d{4}-\d{2}-\d{2}$", s)
MatchesIsoShape(s) ==
  /\ Len(s) = 10
  /\ s[5] = "-" /\ s[8] = "-"
  /\ \A i \in {1, 2, 3, 4, 6, 7, 9, 10} : s[i] \in Digits

\* the three number fields of s around two separators sep, or <<>>
Fields(s, sep) ==
  LET at == {i \in 1..Len(s) : s[i] = sep}
      a == CHOOSE i \in at : \A j \in at : i <= j
      b == CHOOSE i \in at : \A j \in at : j <= i
      f == <<SubSeq(s, 1, a - 1), SubSeq(s, a + 1, b - 1), SubSeq(s, b + 1, Len(s))>>
  IN IF Cardinality(at) = 2 /\ \A k \in 1..3 : AllDigits(f[k]) THEN f ELSE <<>>

\* strptime with day, month, year fields ("%d.%m.%Y", "%d/%m/%Y"): the
\* date, or NULL when the text does not parse
parse_day_first(s, sep) ==
  LET f == Fields(s, sep) IN
    IF f # <<>> /\ Len(f[1]) <= 2 /\ Len(f[2]) <= 2 /\ Len(f[3]) = 4
         /\ ValidDate(DigitsToNat(f[3]), DigitsToNat(f[2]), DigitsToNat(f[1]))
      THEN <<DigitsToNat(f[3]), DigitsToNat(f[2]), DigitsToNat(f[1])>>
    ELSE NULL

\* parsing with year, month, day fields: the date, or NULL
parse_year_first(s, sep) ==
  LET f == Fields(s, sep) IN
    IF f # <<>> /\ Len(f[1]) = 4 /\ Len(f[2]) <= 2 /\ Len(f[3]) <= 2
         /\ ValidDate(DigitsToNat(f[1]), DigitsToNat(f[2]), DigitsToNat(f[3]))
      THEN <<DigitsToNat(f[1]), DigitsToNat(f[2]), DigitsToNat(f[3])>>
    ELSE NULL

\* pd.to_datetime(datestr) without a format, for the texts of the model: a
\* year-first date with "/" or "-" parses, the other texts raise
to_datetime(s) ==
  IF parse_year_first(s, "/") # NULL THEN parse_year_first(s, "/")
  ELSE parse_year_first(s, "-")

\* _normalize_date_iso(datestr)
normalize_date_iso(datestr) ==
  IF datestr = NULL \/ datestr = <<>> THEN Raised("Date is required.")
  ELSE IF MatchesIsoShape(datestr) THEN Returned(datestr)
  ELSE IF parse_day_first(datestr, ".") # NULL
    THEN Returned(isoformat(parse_day_first(datestr, ".")))
  ELSE IF parse_day_first(datestr, "/") # NULL
    THEN Returned(isoformat(parse_day_first(datestr, "/")))
  ELSE IF to_datetime(datestr) # NULL THEN Returned(isoformat(to_datetime(datestr)))
  ELSE Raised("Invalid date")

\* a variant that starts every append from an empty frame
read_savings_csv_fresh(file) == <<>>

\* _read_savings_csv(path): no rows when the file is absent or empty
read_savings_csv(file) == IF file.exists THEN file.rows ELSE <<>>

\* the _key column: null as soon as one of its text parts is null
key_of(r) ==
  IF r.bookingDate = NULL \/ r.partner = NULL \/ r.remittance = NULL THEN NULL
  ELSE r.bookingDate \o <<"|">> \o r.partner \o <<"|">> \o r.remittance \o <<"|">>
         \o AmountText(r.amount)

\* unique(subset=["_key"], keep="first")
unique_keep_first(df) ==
  LET keep == {i \in 1..Len(df) : \A j \in 1..(i - 1) : key_of(df[j]) # key_of(df[i])}
      F[i \in 0..Len(df)] ==
        IF i = 0 THEN <<>> ELSE IF i \in keep THEN Append(F[i - 1], df[i]) ELSE F[i - 1]
  IN F[Len(df)]

\* str.strptime(pl.Date, "%Y-%m-%d", strict=False): the date, or NULL
str_to_date(text) == IF text = NULL THEN NULL ELSE parse_year_first(text, "-")

\* bookingDate parsed to a date and cast back to text
with_parsed_dates(df) ==
  [i \in 1..Len(df) |->
     [df[i] EXCEPT !.bookingDate =
        IF str_to_date(df[i].bookingDate) = NULL THEN NULL
        ELSE isoformat(str_to_date(df[i].bookingDate))]]

\* the order of sort("bookingDate"): nulls first, then by date
BookingDateLeq(a, b) ==
  \/ str_to_date(a) = NULL
  \/ (str_to_date(b) # NULL /\ DateLeq(str_to_date(a), str_to_date(b)))

\* the orders in which the rows I of df can come out of unique and sort (rows
\* of equal date in any order)
RECURSIVE BookingDateOrders(_, _)
BookingDateOrders(df, I) ==
  IF I = {} THEN {<<>>}
  ELSE UNION {{<<i>> \o t : t \in BookingDateOrders(df, I \ {i})} :
                i \in {i \in I : \A j \in I : BookingDateLeq(df[i].bookingDate,
                                                             df[j].bookingDate)}}

\* a variant that leaves the rows in the order of the concatenation
sort_ledger_unsorted(df) == {df}

\* .sort("bookingDate")
sort_ledger(df) ==
  {[k \in 1..Len(df) |-> df[q[k]]] : q \in BookingDateOrders(df, 1..Len(df))}

\* _append_row(path, row): the frames it can write and return
append_row(file, row) ==
  sort_ledger(with_parsed_dates(unique_keep_first(Append(read_savings_csv(file), row))))

\* a file written by _atomic_write_csv
LedgerFile(df) == [exists |-> TRUE, rows |-> df]

Bank == <<"B", "a", "n", "k">>
Interest == <<"I", "n", "t", "e", "r", "e", "s", "t">>

LedgerRow(date, partner, remittance, purpose, amount) ==
  [bookingDate |-> date, partner |-> partner, partnerIBAN |-> <<>>,
   remittance |-> remittance, purpose |-> purpose, amount |-> amount]

\* ledger files found at start: none, an empty one, and imported ones whose
\* rows are not in date order or have no remittance
StoredLedgers ==
  {NoLedger,
   LedgerFile(<<>>),
   LedgerFile(<<LedgerRow(<<"2", "0", "2", "4", "-", "0", "3", "-", "0", "1">>, Bank, Interest, <<>>, 10000)>>),
   LedgerFile(<<LedgerRow(<<"2", "0", "2", "4", "-", "0", "3", "-", "0", "1">>, Bank, Interest, <<>>, 10000),
                LedgerRow(<<"2", "0", "2", "3", "-", "0", "6", "-", "0", "1">>, Bank, NULL, <<>>, 5000)>>),
   LedgerFile(<<LedgerRow(<<"2", "0", "2", "3", "-", "0", "6", "-", "0", "1">>, Bank, NULL, <<>>, 5000),
                LedgerRow(<<"2", "0", "2", "4", "-", "0", "3", "-", "0", "1">>, Bank, NULL, <<>>, 7000)>>)}

Form(date, partner, iban, remit, purpose, amount, direction) ==
  [date |-> date, partner |-> partner, iban |-> iban, remit |-> remit,
   purpose |-> purpose, amount |-> amount, direction |-> direction]

\* the form values of the model
FormPool ==
  {Form(<<"2", "0", "2", "4", "-", "0", "1", "-", "0", "5">>, Bank, <<"a", "t", "1", "2", " ", "3", "x">>, Interest, <<"n", "o", "t", "e">>, <<"1", "2", ",", "5", "0">>, "IN"),
   Form(<<"0", "5", ".", "0", "1", ".", "2", "0", "2", "4">>, <<" ", "B", "a", "n", "k", " ">>, NULL, Interest, NULL, <<" ", "1", "2", ",", "5", "0", " ">>, "IN"),
   Form(<<"0", "5", "/", "0", "1", "/", "2", "0", "2", "4">>, Bank, NULL, Interest, NULL, <<"-", "5", "0", "0">>, "IN"),
   Form(<<"2", "0", "2", "4", "/", "0", "1", "/", "0", "5">>, Bank, NULL, NULL, NULL, <<"+", "7">>, "OUT"),
   Form(<<"2", "0", "2", "3", "-", "1", "2", "-", "3", "1">>, Bank, NULL, Interest, NULL, <<"1", "2", "3", "4", ".", "5", "6">>, "OUT"),
   Form(<<"2", "0", "2", "3", "-", "1", "2", "-", "3", "1">>, <<"a", "|", "b">>, NULL, <<"c">>, NULL, <<"1", ".", "2", "3", "4", ",", "5", "6">>, "IN"),
   Form(<<"2", "0", "2", "3", "-", "1", "2", "-", "3", "1">>, <<"a">>, NULL, <<"b", "|", "c">>, NULL, <<"1", ".", "2", "3", "4", ",", "5", "6">>, "IN"),
   Form(<<"2", "0", "2", "4", "-", "1", "3", "-", "4", "5">>, Bank, NULL, Interest, NULL, <<"1", "2", ",", "5", "0">>, "IN"),
   Form(<<"3", "1", ".", "0", "2", ".", "2", "0", "2", "4">>, Bank, NULL, Interest, NULL, <<"1", "2", ",", "5", "0">>, "IN"),
   Form(<<>>, Bank, NULL, Interest, NULL, <<"1", "2", ",", "5", "0">>, "IN"),
   Form(<<"2", "0", "2", "4", "-", "0", "1", "-", "0", "5">>, Bank, NULL, Interest, NULL, <<"a", "b", "c">>, "IN"),
   Form(<<"2", "0", "2", "4", "-", "0", "1", "-", "0", "5">>, Bank, NULL, Interest, NULL, NULL, "IN"),
   Form(<<"2", "0", "2", "4", "-", "0", "1", "-", "0", "5">>, Bank, NULL, Interest, NULL, <<",">>, "OUT")}

Warning(form, reason) == [status |-> "error", form |-> form, msg |-> reason]

\* a variant that appends the row as typed when the validation fails
AddOrClear_persist_invalid(trig, form) ==
  /\ IF trig = "sav-clear"
       THEN sav' = [status |-> "cleared", msg |-> ""] /\ UNCHANGED ledger
     ELSE IF normalize_date_iso(form.date).error \/ normalize_amount_str(form.amount).error
       THEN /\ sav' = Warning(form, "invalid")
            /\ Len(read_savings_csv(ledger)) < MaxLedger
            /\ ledger' = LedgerFile(Append(read_savings_csv(ledger),
                                           LedgerRow(NULL, normalize_text(form.partner),
                                                     normalize_text(form.remit),
                                                     normalize_text(form.purpose), 0)))
     ELSE UNCHANGED <<ledger, sav>>
  /\ UNCHANGED <<rules, db, op, store, report, jobs, pass, daily>>

\* add_or_clear(n_add, n_clear, date_val, partner, iban, remit, purpose,
\* amount_str, direction), triggered by trig
AddOrClear(trig, form) ==
  LET iso_date == normalize_date_iso(form.date)
      amt == normalize_amount_str(form.amount)
      row == [bookingDate |-> iso_date.value,
              partner |-> normalize_text(form.partner),
              partnerIBAN |-> normalize_iban(form.iban),
              remittance |-> normalize_text(form.remit),
              purpose |-> normalize_text(form.purpose),
              amount |-> IF form.direction = "OUT" THEN -Abs(amt.value) ELSE Abs(amt.value)]
  IN /\ IF trig = "sav-clear"
          THEN sav' = [status |-> "cleared", msg |-> ""] /\ UNCHANGED ledger
        ELSE IF iso_date.error THEN sav' = Warning(form, iso_date.reason) /\ UNCHANGED ledger
        ELSE IF amt.error THEN sav' = Warning(form, amt.reason) /\ UNCHANGED ledger
        ELSE \E df \in append_row(ledger, row) :
               /\ Len(df) <= MaxLedger
               /\ ledger' = LedgerFile(df)
               /\ sav' = [status |-> "added", form |-> form, msg |-> "Added entry",
                          row |-> row, before |-> read_savings_csv(ledger), df |-> df]
     /\ UNCHANGED <<rules, db, op, store, report, jobs, pass, daily>>

InitSavings ==
  /\ ledger \in StoredLedgers
  /\ sav = NoSav
  /\ jobs = NoJobs
  /\ pass = NoPass
  /\ daily = NoDaily
  /\ rules = NoFile
  /\ db = <<>>
  /\ op = NoOp
  /\ store = <<>>
  /\ report = NoReport

NextSavings == \E trig \in {"sav-add", "sav-clear"} : \E form \in FormPool : AddOrClear(trig, form)

SpecSavings == InitSavings /\ [][NextSavings]_vars

(***************************************************************************)
(* Claims about the savings ledger                                         *)
(***************************************************************************)
Added == sav.status = "added"

\* rows i < j of df never have the later date first; a row without a date
\* stands before every dated row
Ascending(df) ==
  \A i, j \in 1..Len(df) :
    i < j =>
      \/ df[i].bookingDate = NULL
      \/ /\ df[j].bookingDate # NULL
         /\ DateLeq(str_to_date(df[i].bookingDate), str_to_date(df[j].bookingDate))

FailsValidation(form) ==
  normalize_date_iso(form.date).error \/ normalize_amount_str(form.amount).error

\* C18: a click on Add whose date or amount fails validation returns a
\* message that names the reason and leaves the ledger file as it was; only
\* a form that passes validation is appended.
C18_InvalidEntryRejected ==
  [][/\ sav'.status = "error" =>
          /\ ledger' = ledger
          /\ FailsValidation(sav'.form)
          /\ sav'.msg \in {"Date is required.", "Invalid date", "Amount is required.",
                           "Invalid amount.", "could not convert string to float"}
     /\ sav'.status = "added" => ~FailsValidation(sav'.form)]_vars

\* an entry was rejected while the ledger holds rows
C18_Witness ==
  /\ sav.status = "error"
  /\ FailsValidation(sav.form)
  /\ ledger.exists
  /\ ledger.rows # <<>>

\* text denotes a calendar date written as YYYY-MM-DD, DD.MM.YYYY or DD/MM/YYYY
CalendarDateText(text) ==
  /\ text # NULL
  /\ text # <<>>
  /\ \/ MatchesIsoShape(text) /\ parse_year_first(text, "-") # NULL
     \/ parse_day_first(text, ".") # NULL
     \/ parse_day_first(text, "/") # NULL

\* the (bookingDate, partner, remittance, amount) tuple of a row
KeyTuple(r) == <<r.bookingDate, r.partner, r.remittance, r.amount>>

\* how many rows of df are r
CountRow(df, r) == Cardinality({i \in 1..Len(df) : df[i] = r})

\* a and b hold the same rows, each as many times
SameRows(a, b) ==
  /\ Len(a) = Len(b)
  /\ \A i \in 1..Len(a) : CountRow(a, a[i]) = CountRow(b, a[i])

\* C16 (as stated): once an entry with a calendar date was added, adding the
\* identical entry again leaves the stored rows as they are, and exactly one
\* stored row carries its (bookingDate, partner, remittance, amount).
C16_Original ==
  (Added /\ CalendarDateText(sav.form.date)) =>
    /\ \A df \in append_row(ledger, sav.row) : SameRows(df, ledger.rows)
    /\ Cardinality({i \in 1..Len(ledger.rows) :
                      KeyTuple(ledger.rows[i]) = KeyTuple(sav.row)}) = 1

\* the magnitude, in cents, of the decimal number an amount text writes: with
\* a comma the dots group thousands and the comma is the decimal mark, without
\* one a dot is the decimal point
WrittenMagnitude(text) ==
  LET s == remove_whitespace(text) IN
    IF \E i \in 1..Len(s) : s[i] = ","
      THEN Abs(float(replace_char(remove_char(s, "."), ",", ".")).value)
    ELSE Abs(float(s).value)

\* C19 (as stated): the amount of an added row has the magnitude written in
\* the amount text, EU grouping or plain decimal, and the sign of the
\* direction flag: IN positive, OUT negative.
C19_Original ==
  Added =>
    /\ Abs(sav.row.amount) = WrittenMagnitude(sav.form.amount)
    /\ sav.form.direction = "IN" => sav.row.amount >= 0
    /\ sav.form.direction = "OUT" => sav.row.amount <= 0

\* text is a valid ISO date
ValidIso(text) == text # NULL /\ MatchesIsoShape(text) /\ parse_year_first(text, "-") # NULL

\* C20 (as stated): an entry is added only if its date text is a calendar
\* date written as YYYY-MM-DD, DD.MM.YYYY or DD/MM/YYYY, and then every
\* stored row has a valid ISO bookingDate.
C20_Original ==
  Added =>
    /\ CalendarDateText(sav.form.date)
    /\ \A i \in 1..Len(ledger.rows) : ValidIso(ledger.rows[i].bookingDate)

(***************************************************************************)
(* The ledger append step by step.  jobs[p] is the call of _append_row that *)
(* writer p has under way: its position pc, the row it appends, the merged *)
(* frame df it holds in memory, the rows its temporary file holds so far,  *)
(* and whether no other call was under way at any time during it.          *)
(***************************************************************************)
Writers == {1, 2}

IdleJob == [pc |-> "idle", row |-> NULL, df |-> <<>>, tmp |-> <<>>, alone |-> TRUE]

\* the rows the writers append
WritePool ==
  {LedgerRow(<<"2", "0", "2", "4", "-", "0", "1", "-", "0", "5">>, Bank, Interest, <<>>, 1250),
   LedgerRow(<<"2", "0", "2", "3", "-", "1", "2", "-", "3", "1">>, Bank, Interest, <<>>, -5000),
   LedgerRow(<<"2", "0", "2", "4", "-", "0", "1", "-", "0", "5">>, Bank, <<>>, <<>>, 700)}

Active(p) == jobs[p].pc \notin {"idle", "done", "failed", "crashed"}

\* add_or_clear calls _append_row(path, row)
StartAppend(p, row) ==
  /\ jobs[p].pc = "idle"
  /\ jobs' = [q \in Writers |->
                IF q = p THEN [IdleJob EXCEPT !.pc = "start", !.row = row,
                                              !.alone = \A o \in Writers \ {p} : ~Active(o)]
                ELSE IF Active(q) THEN [jobs[q] EXCEPT !.alone = FALSE]
                ELSE jobs[q]]
  /\ UNCHANGED <<ledger, sav, rules, db, op, store, report, pass, daily>>

\* _read_savings_csv, then concat, unique and sort in memory
ReadAndMerge(p) ==
  /\ jobs[p].pc = "start"
  /\ \E df \in append_row(ledger, jobs[p].row) :
       /\ Len(df) <= MaxLedger
       /\ jobs' = [jobs EXCEPT ![p].pc = "merged", ![p].df = df]
  /\ UNCHANGED <<ledger, sav, rules, db, op, store, report, pass, daily>>

\* tmpdir = Path(tempfile.mkdtemp()); tmpfile = tmpdir / (path.name + ".tmp")
MkTemp(p) ==
  /\ jobs[p].pc = "merged"
  /\ jobs' = [jobs EXCEPT ![p].pc = "writing", ![p].tmp = <<>>]
  /\ UNCHANGED <<ledger, sav, rules, db, op, store, report, pass, daily>>

\* a variant that writes the frame to the ledger path itself
write_target_in_place == "path"

\* the file df.write_csv writes to
write_target == "tmpfile"

\* df.write_csv(tmpfile), one row further; the call returns once every row
\* is written
WriteCsv(p) ==
  /\ jobs[p].pc = "writing"
  /\ LET n == Len(jobs[p].tmp) + 1
         written == SubSeq(jobs[p].df, 1, n)
     IN /\ jobs' = [jobs EXCEPT ![p].tmp = written,
                                ![p].pc = IF n = Len(jobs[p].df) THEN "written" ELSE "writing"]
        /\ IF write_target = "tmpfile" THEN UNCHANGED ledger
           ELSE ledger' = LedgerFile(written)
  /\ UNCHANGED <<sav, rules, db, op, store, report, pass, daily>>

\* os.replace(tmpfile, path)
OsReplace(p) ==
  /\ jobs[p].pc = "written"
  /\ ledger' = LedgerFile(jobs[p].tmp)
  /\ jobs' = [jobs EXCEPT ![p].pc = "done", ![p].tmp = <<>>]
  /\ UNCHANGED <<sav, rules, db, op, store, report, pass, daily>>

\* os.replace raises OSError (the temporary directory is on another file
\* system, or an I/O failure): the call ends with the exception
OsReplaceFails(p) ==
  /\ jobs[p].pc = "written"
  /\ jobs' = [jobs EXCEPT ![p].pc = "failed"]
  /\ UNCHANGED <<ledger, sav, rules, db, op, store, report, pass, daily>>

\* the process dies, or a step raises, between two steps of the call
Crash(p) ==
  /\ Active(p)
  /\ jobs' = [jobs EXCEPT ![p].pc = "crashed"]
  /\ UNCHANGED <<ledger, sav, rules, db, op, store, report, pass, daily>>

InitWrite ==
  /\ ledger \in StoredLedgers
  /\ jobs = [p \in Writers |-> IdleJob]
  /\ sav = NoSav
  /\ rules = NoFile
  /\ db = <<>>
  /\ op = NoOp
  /\ store = <<>>
  /\ report = NoReport
  /\ pass = NoPass
  /\ daily = NoDaily

NextWrite ==
  \E p \in Writers :
    \/ \E row \in WritePool : StartAppend(p, row)
    \/ ReadAndMerge(p)
    \/ MkTemp(p)
    \/ WriteCsv(p)
    \/ OsReplace(p)
    \/ OsReplaceFails(p)
    \/ Crash(p)

SpecWrite == InitWrite /\ [][NextWrite]_vars

\* C21: every step of a ledger write, a crash or a failing replace included,
\* either leaves the ledger file as it was or puts the complete new frame in
\* its place; the file never holds part of a frame.
C21_AtomicWrite ==
  [][\/ ledger' = ledger
     \/ \E p \in Writers : /\ jobs[p].pc = "written"
                           /\ ledger' = LedgerFile(jobs[p].df)]_vars

\* a writer died while its temporary file held part of the frame, and the
\* ledger still holds the rows it held before
C21_Witness ==
  \E p \in Writers :
    /\ jobs[p].pc = "crashed"
    /\ jobs[p].tmp # <<>>
    /\ Len(jobs[p].tmp) < Len(jobs[p].df)
    /\ ledger.rows # <<>>
    /\ ledger.rows # jobs[p].df

\* row is one of the stored rows
Stored(row) == \E i \in 1..Len(ledger.rows) : ledger.rows[i] = row

C23_Original == (op.name = "label" /\ ~op.ok) => op.applied = 0

(***************************************************************************)
(* Expense values (SpecTrend).                                             *)
(***************************************************************************)
\* max(-net, 0)
ClippedExpense(net) == IF net < 0 THEN -net ELSE 0

\* C24 (as stated): the expense of a category in the reporting month is
\* max(-net, 0), in currExpense and in the budget's spent figures, so none of
\* them is negative.
C24_Original ==
  Ok =>
    /\ \A t \in report.trend_df :
         t.curr_expense =
           ClippedExpense(SumRows({r \in ReportMonthRows : RowCategory(r) = t.category}))
    /\ \A c \in DOMAIN report.spent : report.spent[c] >= 0

(***************************************************************************)
(* Budget report.  The stored rows hold budgeted categories, a category    *)
(* without a budget, a transfer, and transactions whose category is the    *)
(* text "Other".                                                           *)
(***************************************************************************)
BudgetPool ==
  << [id |-> 1, account |-> "Daniel", bookingDate |-> <<2024, 1, 10>>, amount |-> -500,
      category |-> Fees],
     [id |-> 2, account |-> "Daniel", bookingDate |-> <<2024, 2, 3>>, amount |-> -3000,
      category |-> Food],
     [id |-> 3, account |-> "Daniel", bookingDate |-> <<2024, 2, 5>>, amount |-> -5000,
      category |-> Hobby],
     [id |-> 4, account |-> "Daniel", bookingDate |-> <<2024, 2, 7>>, amount |-> -700,
      category |-> Other],
     [id |-> 5, account |-> "Daniel", bookingDate |-> <<2024, 2, 9>>, amount |-> -10000,
      category |-> Transfer],
     [id |-> 6, account |-> "Daniel", bookingDate |-> <<2024, 2, 11>>, amount |-> -90000,
      category |-> Rent],
     [id |-> 7, account |-> "Daniel", bookingDate |-> <<2024, 3, 2>>, amount |-> -900,
      category |-> Other] >>

\* the first row and any of the others, in pool order
BudgetStores ==
  {SelectSeq(BudgetPool, LAMBDA r : r.id \in S \cup {1}) : S \in SUBSET (2..Len(BudgetPool))}

InitBudget ==
  /\ store \in BudgetStores
  /\ report = NoReport
  /\ rules = NoFile
  /\ db = <<>>
  /\ op = NoOp
  /\ ledger = NoLedger
  /\ sav = NoSav
  /\ jobs = NoJobs
  /\ pass = NoPass
  /\ daily = NoDaily

SpecBudget == InitBudget /\ [][NextDash]_vars

\* C27 (as stated): the spent figures of the budget rows, "Other" included,
\* add up to the expense total of all non-transfer categories of the
\* reporting month.
C27_Original ==
  Ok =>
    LET cats == CategoriesOf(ReportMonthRows)
        expense == [c \in cats |->
                      ClippedExpense(SumRows({r \in ReportMonthRows : RowCategory(r) = c}))]
        Spent == [c \in DOMAIN report.budget_df |-> report.budget_df[c].Spent]
    IN SumOver(DOMAIN report.budget_df, Spent) = SumOver(cats, expense)

(***************************************************************************)
(* Ledger rows kept by an append (SpecSavings).                            *)
(***************************************************************************)
\* C26 (as stated): after an entry with a calendar date was added, every
\* (bookingDate, partner, remittance, amount) tuple that the ledger held
\* before, and that of the new row, is the tuple of a stored row.
C26_Original ==
  (Added /\ CalendarDateText(sav.form.date)) =>
    \A r \in {sav.before[i] : i \in 1..Len(sav.before)} \cup {sav.row} :
      \E i \in 1..Len(ledger.rows) : KeyTuple(ledger.rows[i]) = KeyTuple(r)

(***************************************************************************)
(* The labeling app (code/label_app.py unified_labeling_callback).  op     *)
(* records the last click: keyword is the id of the transaction it was     *)
(* about, category the label, ok whether the relabel pass it ran finished. *)
(***************************************************************************)
LabelPool ==
  << [transactionId |-> <<"t", "1", "2">>, bookingDate |-> <<2024, 2, 1>>, amount |-> -90000,
      remittance |-> <<"r", "e", "n", "t">>],
     [transactionId |-> <<"t", "1">>, bookingDate |-> <<2024, 2, 3>>, amount |-> -350,
      remittance |-> <<"c", "o", "f", "f", "e", "e">>],
     [transactionId |-> <<"x", "$">>, bookingDate |-> <<2024, 2, 5>>, amount |-> -2000,
      remittance |-> NULL] >>

\* the stored tables of the labeling app: rows of the pool, none labeled yet
LabelTables ==
  {[i \in 1..Len(q) |->
      [transactionId |-> LabelPool[q[i]].transactionId,
       bookingDate |-> LabelPool[q[i]].bookingDate,
       amount |-> LabelPool[q[i]].amount,
       remittance |-> LabelPool[q[i]].remittance,
       category |-> NULL]] : q \in IncSeqs(Len(LabelPool), Len(LabelPool)) \ {<<>>}}

\* SELECT * FROM transactions WHERE category IS NULL LIMIT 1: the rows the
\* query may return (no ORDER BY)
load_next_unlabeled_transaction(table) ==
  {i \in 1..Len(table) : table[i].category = NULL}

\* UPDATE transactions SET category = ? WHERE transactionId = ?
write_label_to_db(table, tx_id, category) ==
  [i \in 1..Len(table) |->
     IF table[i].transactionId = tx_id THEN [table[i] EXCEPT !.category = category]
     ELSE table[i]]

\* Python truth of a text input: None and "" are false
TruthyText(x) == x # NULL /\ x # <<>>

\* run_label_script(): label_transactions.py on the table and rules.json
run_label_script(table, rulesFile) == apply_label_rules(table, rulesFile)

\* the branch shared by the two buttons: label the next unlabeled
\* transaction, add a rule on field (with the transaction's id as keyword
\* for the unique button, with the pattern otherwise), run the relabel pass
LabelNext(name, new_cat_val, dropdown_val, pattern, field) ==
  LET unlabeled == load_next_unlabeled_transaction(db)
      label == IF TruthyText(new_cat_val) THEN new_cat_val ELSE dropdown_val
  IN IF unlabeled = {}
       THEN /\ op' = [NoOp EXCEPT !.name = name, !.field = "none"]
            /\ UNCHANGED <<rules, db>>
     ELSE IF ~TruthyText(label)
       THEN /\ op' = [NoOp EXCEPT !.name = name, !.field = "no category"]
            /\ UNCHANGED <<rules, db>>
     ELSE \E i \in unlabeled :
            LET tx_id == db[i].transactionId
                written == write_label_to_db(db, tx_id, label)
                rulesFile == add_rule_to_json(rules, IF name = "unique" THEN tx_id ELSE pattern,
                                              label, field)
                r == run_label_script(written, rulesFile)
            IN /\ Len(rulesFile.list) <= MaxRules
               /\ rules' = rulesFile
               /\ db' = IF r.raised THEN written ELSE r.df
               /\ op' = [name |-> name, keyword |-> tx_id, category |-> label,
                         field |-> field, ok |-> ~r.raised, applied |-> r.applied]

\* unified_labeling_callback triggered by "assign-btn"
AssignLabel(new_cat_val, dropdown_val, pattern_val) ==
  /\ LabelNext("assign", new_cat_val, dropdown_val,
               IF TruthyText(pattern_val) THEN pattern_val ELSE <<>>, "remittance")
  /\ UNCHANGED <<store, report, ledger, sav, jobs, pass, daily>>

\* unified_labeling_callback triggered by "unique-btn"
UniqueLabel(new_cat_val, dropdown_val) ==
  /\ LabelNext("unique", new_cat_val, dropdown_val, <<>>, "transactionId")
  /\ UNCHANGED <<store, report, ledger, sav, jobs, pass, daily>>

InitLabel ==
  /\ rules \in {NoFile, RulesFile(<<>>),
                RulesFile(<<[match |-> <<"c", "o", "f", "f", "e", "e">>, field |-> "remittance",
                             category |-> Food, regex |-> FALSE]>>)}
  /\ db \in LabelTables
  /\ op = NoOp
  /\ store = <<>>
  /\ report = NoReport
  /\ ledger = NoLedger
  /\ sav = NoSav
  /\ jobs = NoJobs
  /\ pass = NoPass
  /\ daily = NoDaily

NextLabel ==
  \E new_cat_val \in {NULL, <<>>, Manual} :
    \E dropdown_val \in {NULL, Food} :
      \/ \E pattern_val \in {NULL, <<>>, <<"r", "e", "n", "t">>} :
           AssignLabel(new_cat_val, dropdown_val, pattern_val)
      \/ UniqueLabel(new_cat_val, dropdown_val)

SpecLabel == InitLabel /\ [][NextLabel]_vars

\* the click labeled a transaction and the relabel pass it ran finished
Completed(name) == op.name = name /\ op.field \in Columns /\ op.ok

\* C25 (as stated): after Assign Label completed with a label for transaction
\* T, T's stored category is that label.
C25_Original ==
  Completed("assign") =>
    \A i \in 1..Len(db) : db[i].transactionId = op.keyword => db[i].category = op.category

\* C29 (as stated): after Unique completed with label L for transaction T,
\* T's category is L and every other transaction has the category the rules
\* held before give it.
C29_Original ==
  [][(rules.exists /\ op'.name = "unique" /\ op'.field = "transactionId" /\ op'.ok) =>
       \A i \in 1..Len(db') :
         IF db'[i].transactionId = op'.keyword THEN db'[i].category = op'.category
         ELSE db'[i].category = apply_label_rules(db, rules).df[i].category]_vars

(***************************************************************************)
(* The relabel pass step by step (code/label_transactions.py).  db is the  *)
(* committed content of the transactions table; pass holds the position of *)
(* the script, the table as it was when the script started, the labeled    *)
(* frame in memory and the rows inserted in the open transaction.          *)
(***************************************************************************)
PassRunning == pass.pc \in {"labelled", "dropped", "created", "inserting"}

\* df = load_transactions_db(DB_PATH); df = apply_label_rules(df, RULES_PATH)
PassLoadAndLabel ==
  /\ pass.pc \in {"idle", "done", "failed"}
  /\ LET r == apply_label_rules(db, rules) IN
       pass' = [pc |-> IF r.raised THEN "failed" ELSE "labelled",
                before |-> db, df |-> r.df, pending |-> <<>>]
  /\ UNCHANGED <<rules, db, op, store, report, ledger, sav, jobs, daily>>

\* cursor.execute("DROP TABLE IF EXISTS transactions"): no transaction is
\* open, so the statement takes effect at once
PassDrop ==
  /\ pass.pc = "labelled"
  /\ db' = <<>>
  /\ pass' = [pass EXCEPT !.pc = "dropped"]
  /\ UNCHANGED <<rules, op, store, report, ledger, sav, jobs, daily>>

\* cursor.execute("CREATE TABLE transactions (...)")
PassCreate ==
  /\ pass.pc = "dropped"
  /\ db' = <<>>
  /\ pass' = [pass EXCEPT !.pc = IF pass.df = <<>> THEN "inserting" ELSE "created"]
  /\ UNCHANGED <<rules, op, store, report, ledger, sav, jobs, daily>>

\* cursor.execute("INSERT INTO transactions ...") for the next row of df,
\* inside the transaction the first INSERT opens
PassInsert ==
  /\ pass.pc \in {"created", "inserting"}
  /\ Len(pass.pending) < Len(pass.df)
  /\ pass' = [pass EXCEPT !.pc = "inserting",
                          !.pending = Append(pass.pending, pass.df[Len(pass.pending) + 1])]
  /\ UNCHANGED <<rules, db, op, store, report, ledger, sav, jobs, daily>>

\* conn.commit()
PassCommit ==
  /\ pass.pc = "inserting"
  /\ Len(pass.pending) = Len(pass.df)
  /\ db' = pass.pending
  /\ pass' = [pass EXCEPT !.pc = "done"]
  /\ UNCHANGED <<rules, op, store, report, ledger, sav, jobs, daily>>

\* the script dies between two database steps: the open transaction, if any,
\* is rolled back
PassCrash ==
  /\ PassRunning
  /\ pass' = [pass EXCEPT !.pc = "crashed", !.pending = <<>>]
  /\ UNCHANGED <<rules, db, op, store, report, ledger, sav, jobs, daily>>

InitPass ==
  /\ rules \in {RulesFile(<<>>)} \cup
               {add_rule_to_json(RulesFile(<<>>), k.keyword, k.category, k.field) :
                  k \in RulePool}
  /\ db \in Tables
  /\ pass = NoPass
  /\ op = NoOp
  /\ store = <<>>
  /\ report = NoReport
  /\ ledger = NoLedger
  /\ sav = NoSav
  /\ jobs = NoJobs
  /\ daily = NoDaily

NextPass ==
  \/ PassLoadAndLabel
  \/ PassDrop
  \/ PassCreate
  \/ PassInsert
  \/ PassCommit
  \/ PassCrash

SpecPass == InitPass /\ [][NextPass]_vars

\* row a with its category left out
WithoutCategory(a) ==
  [transactionId |-> a.transactionId, bookingDate |-> a.bookingDate,
   amount |-> a.amount, remittance |-> a.remittance]

\* C28 (as stated): from the start of a relabel pass on, also after a crash
\* between two of its database steps, the stored table holds every
\* transaction it held when the pass started, unchanged but for the category.
C28_Original ==
  pass.pc # "idle" =>
    \A i \in 1..Len(pass.before) :
      \E j \in 1..Len(db) : WithoutCategory(db[j]) = WithoutCategory(pass.before[i])

(***************************************************************************)
(* The daily job (code/daily.py run_daily).  daily holds the local         *)
(* calendar day, the stamp file (whether it exists and the day of its      *)
(* modification time), the days on which a download exited with code 0    *)
(* and those on which one exited with another code, and what the last run  *)
(* did.  The download itself (ingestion) adds no rows in the model; the    *)
(* labeling script rewrites the table.                                     *)
(***************************************************************************)
MaxDay == 3

NoStamp == [exists |-> FALSE, mtime |-> 0]

Stamp(day) == [exists |-> TRUE, mtime |-> day]

\* _today_already_ran(stamp), on day now
today_already_ran(stamp, now) == stamp.exists /\ stamp.mtime = now

\* a variant that touches the stamp file whatever the exit code
stamp_after_download_always(rc, stamp, now) == Stamp(now)

\* if rc == 0: STAMP_FILE.touch()
stamp_after_download(rc, stamp, now) == IF rc = 0 THEN Stamp(now) ELSE stamp

\* run_daily(): the download exits with code rc, late days after the run
\* started (a download that runs past midnight has late = 1)
RunDaily(rc, late) ==
  LET start == daily.day
      skip == today_already_ran(daily.stamp, start)
      finish == IF skip THEN start ELSE start + late
      r == apply_label_rules(db, rules)
  IN /\ finish <= MaxDay
     /\ daily' = [status |-> "ran",
                  day |-> finish,
                  stamp |-> IF skip THEN daily.stamp
                            ELSE stamp_after_download(rc, daily.stamp, finish),
                  okdays |-> IF ~skip /\ rc = 0 THEN daily.okdays \cup {finish}
                             ELSE daily.okdays,
                  faildays |-> IF ~skip /\ rc # 0 THEN daily.faildays \cup {finish}
                               ELSE daily.faildays,
                  last |-> [start |-> start,
                            okbefore |-> daily.okdays,
                            failbefore |-> daily.faildays,
                            download |-> IF skip THEN "skipped"
                                         ELSE IF rc = 0 THEN "ok" ELSE "failed",
                            launched |-> IF skip THEN <<"label_transactions.py">>
                                         ELSE <<"download_transactions.py",
                                                "label_transactions.py">>]]
     /\ db' = IF r.raised THEN db ELSE r.df
     /\ UNCHANGED <<rules, op, store, report, ledger, sav, jobs, pass>>

\* midnight passes
NextDay ==
  /\ daily.day < MaxDay
  /\ daily' = [daily EXCEPT !.day = daily.day + 1]
  /\ UNCHANGED <<rules, db, op, store, report, ledger, sav, jobs, pass>>

NoRun ==
  [start |-> 0, okbefore |-> {}, failbefore |-> {}, download |-> "none", launched |-> <<>>]

InitDaily ==
  /\ daily \in {[status |-> "idle", day |-> 1, stamp |-> st, okdays |-> ok, faildays |-> {},
                   last |-> NoRun] :
                  <<st, ok>> \in {<<NoStamp, {}>>, <<Stamp(0), {0}>>}}
  /\ rules \in {RulesFile(<<>>)} \cup
               {add_rule_to_json(RulesFile(<<>>), k.keyword, k.category, k.field) :
                  k \in RulePool}
  /\ db \in Tables
  /\ op = NoOp
  /\ store = <<>>
  /\ report = NoReport
  /\ ledger = NoLedger
  /\ sav = NoSav
  /\ jobs = NoJobs
  /\ pass = NoPass

NextDaily ==
  \/ \E rc \in {0, 1} : \E late \in {0, 1} : RunDaily(rc, late)
  \/ NextDay

SpecDaily == InitDaily /\ [][NextDaily]_vars

\* C30: a run skips the download exactly when a download exited with code 0
\* earlier on the day the run starts, a failed download leaves the stamp as
\* it was, and every run launches the labeling script last, after the
\* download step.
C30_DownloadOncePerDay ==
  daily.status = "ran" =>
    /\ (daily.last.download = "skipped") <=> (daily.last.start \in daily.last.okbefore)
    /\ daily.last.launched # <<>>
    /\ daily.last.launched[Len(daily.last.launched)] = "label_transactions.py"
    /\ (daily.last.download # "skipped") =>
          daily.last.launched = <<"download_transactions.py", "label_transactions.py">>
    /\ daily.stamp.exists => daily.stamp.mtime \in daily.okdays

\* a download failed earlier on the day, the stamp is still the one of an
\* earlier day, and the run attempted the download again
C30_Witness ==
  /\ daily.status = "ran"
  /\ daily.last.start \in daily.last.failbefore
  /\ daily.last.download \in {"ok", "failed"}
  /\ daily.last.okbefore = {0}

====
